---- MODULE Spec2Model ----
(***************************************************************************)
(* A model of the task scheduler of beached/function_queue: the permanent *)
(* workers with their work-stealing loop, the drain loop that add_task     *)
(* wraps around every callable, the re-submission of tasks whose latch is  *)
(* not ready, the client-side helpers schedule_task / create_task_group,   *)
(* and stop( block = true ).                                               *)
(*                                                                         *)
(* Every action is one access to shared memory (an atomic, a queue under   *)
(* its mutex, a latch) together with the thread-local code around it.      *)
(***************************************************************************)
EXTENDS Integers, Sequences, FiniteSets, TLC

\* m_num_threads, set by the constructor
NumThreads == 2
\* slots per queue (1024 in the program)
QueueSize == 2
\* callables a client submits in one run
MaxTasks == 3
\* callables of one create_task_group call
MaxGroup == 2
\* wrapper closures recorded per task (each re-submission adds one)
MaxWraps == 2
\* threads that use one locking_circular_buffer directly
NumUsers == 2
\* values pushed into that buffer in one run
MaxPush == 4
\* calls of get_task_id in one run
MaxCount == 4
\* calls of start and stop in one run
MaxCalls == 3
\* callables that call wait_for_scope in one run, each with its helper thread
MaxScopes == 2
\* future_result_t objects in one run: a first one and its successors
MaxFut == 4
\* the arguments a function stream is called with are 1 .. MaxInput
MaxInput == 3
\* set_value / set_exception calls in a run in which holders of a future make them
MaxSets == 3
\* the largest count a latch is constructed with
MaxLatch == 3
\* notify calls one user of a latch makes
MaxNotify == 3
\* m_num_threads of the scheduler whose scan order is followed
ScanThreads == 3
\* failed turns of the last loop of wait_for_task_from_pool that are counted
MaxSpins == 2
\* tasks one helper takes in a run
MaxTaken == 3
\* calls of am_i_in_pool queued or running at a time
MaxAsk == 1

Workers == 0 .. (NumThreads - 1)
Client == NumThreads
Threads == 0 .. NumThreads
\* the threads start_temp_task_runners creates
Helpers == (NumThreads + 1) .. (NumThreads + MaxScopes)
AllThreads == Threads \cup Helpers

VARIABLES
  m_continue,    \* std::atomic_bool m_continue
  m_task_count,  \* std::atomic<size_t> m_task_count, kept modulo m_num_threads
  m_tasks,       \* std::vector<task_queue_t> m_tasks
  pc,            \* where each thread is
  stack,         \* per thread: queue ids of the drain loops it is inside, innermost first
  cur,           \* per thread: the task it holds
  m,             \* per thread: the queue index of the scan or of the send
  latch,         \* the counts of the group latch and of the gate latch
  executed,      \* per callable: how often it was invoked
  notified,      \* per callable: how often its completion notify ran
  next_id,       \* the next callable the client submits
  grp_size,      \* sizeof...( tasks ) of the create_task_group call, 0 before it
  grp_first,     \* the first callable of the group
  grp_left,      \* callables of the group still to schedule
  threw,         \* per worker: a callable it invoked has thrown
  m_data,        \* locking_circular_buffer::members_t of one buffer
  m_mutex,       \* that buffer's mutex: 0 when free, else the user that owns it
  user,          \* per user of the buffer: where it is, its value, its last result
  pushed,        \* the values stored by successful pushes, in order
  popped,        \* the values returned by successful pops, in order
  tc,            \* per thread: the local tc of its get_task_id call, -1 outside
  issued,        \* the counter values and queue indices get_task_id returned
  m_threads,     \* std::vector<std::thread> m_threads: the thread each entry owns, 0 for none
  m_thread_map,  \* m_thread_map: the pairs thread id, queue index
  thread,        \* per thread id: where the thread start( ) created is, and its queue index
  life,          \* the caller of start( ) and stop( ): its position and the calls that returned
  m_other_threads, \* per helper: its entry of the list m_other_threads
  temp,          \* per helper: the thread in the scope, the queue index id, the latch sem
  scope_count,   \* callables with a wait_for_scope submitted so far
  fut,           \* per future_result_t: its state, its slot, its latch, its continuations
  ready,         \* the futures whose task is in the scheduler and has not run
  got,           \* per future_result_t: what get( ) gave its caller
  sem,           \* one daw::shared_latch: its counter, its mutex, the count it was made with
  notifier,      \* per user of that latch: where it is and the notify calls it finished
  scan,          \* one call of wait_for_task_from_pool: its id, its place, the queues it sees
  helper         \* task_runner( id, hnd, sem ) of the header: its place, its handle, its latch

\* the scheduler and its client
core == << m_continue, m_task_count, m_tasks, pc, stack, cur, m, latch,
           executed, notified, next_id, grp_size, grp_first, grp_left >>

\* what the scheduler's own steps leave alone
buffer == << m_data, m_mutex, user, pushed, popped >>

counter == << tc, issued >>

lifecycle == << m_threads, m_thread_map, thread, life >>

scopes == << m_other_threads, temp, scope_count >>

futures == << fut, ready, got >>

latches == << sem, notifier >>

scans == << scan >>

handles == << helper >>

ext == << threw, buffer, counter, lifecycle, scopes, futures, latches, scans, handles >>

vars == << core, ext >>

\* the future_result_t objects of a run, numbered in the order they are made
Futs == 1 .. MaxFut

\* what the slot of a future_result_t holds: nothing, an int, a std::string,
\* or the exception thrown by the callable of future n
NoValue == [kind |-> "none", n |-> 0, s |-> ""]

IntValue(n) == [kind |-> "int", n |-> n, s |-> ""]

StringValue(s) == [kind |-> "string", n |-> 0, s |-> s]

Exception(i) == [kind |-> "exception", n |-> i, s |-> ""]

\* a future_result_t that was not made yet; a made one is pending with a latch
\* of 1, knows the future it continues (from, 0 for a first one), the callable
\* that fills it (fn), the argument of a resolved first one (arg), the
\* continuations it still holds (conts), every continuation registered on it
\* and every one handed to the scheduler, in order, how often its callable
\* was invoked, whether it was registered on a resolved future (late), and
\* how many set_value / set_exception calls were made on it (sets)
NoFuture ==
  [state |-> "none", value |-> NoValue, sem |-> 1, from |-> 0, fn |-> "none",
   arg |-> 0, conts |-> << >>, registered |-> << >>, scheduled |-> << >>,
   invoked |-> 0, late |-> FALSE, sets |-> 0]

\* no call of wait_for_task_from_pool is under way: id is the caller's queue,
\* m the queue of the for loop, tried the queues receive( ) was called on in
\* the scan, in order, got the queue the returned task came from, spins the
\* failed turns of the last loop, q the tasks each queue holds
NoScan ==
  [at |-> "none", id |-> 0, m |-> 0, tried |-> << >>, got |-> -1, spins |-> 0,
   q |-> [k \in 0 .. (ScanThreads - 1) |-> 0]]

\* an empty unique_ptr / optional task
NoTask == [id |-> 0, kind |-> "none", wraps |-> << >>]

\* ------------------------------------------------------------------ latch
\* a notify that decrements whatever the count is
latch_notify_below(c) == c - 1

\* daw::shared_latch: notify decrements a positive count
latch_notify(c) == IF c > 0 THEN c - 1 ELSE 0

\* daw::shared_latch::try_wait
latch_try_wait(c) == c = 0

\* ------------------------------------------------------------------ queue
\* A queue is kept as the sequence of the occupied slots of the ring, from
\* m_front to m_back: the ring's states up to rotation.
EmptyQueue == << >>

empty(q) == q = << >>

full(q) == Len(q) = QueueSize

\* the task try_pop_front returns when it owns the lock and the queue is not empty
pop_value(q) == Head(q)

\* a pop that hands out the front task and leaves it in the queue
keep_front(q) == q

\* the queue after a try_pop_front that owned the lock
try_pop_front(q) == Tail(q)

\* the queue after a try_push_back that owned the lock
try_push_back(q, v) == Append(q, v)

\* ------------------------------------------------------------------ task
\* a task that never looks at its latch
always_ready(t) == TRUE

\* task_t::is_ready: no latch, or the latch is already zero
is_ready(t) == IF t.kind = "gated" THEN latch_try_wait(latch.gate) ELSE TRUE

\* get_task_id: the value of m_task_count++ modulo m_num_threads
get_task_id == m_task_count % NumThreads

\* add_task( task, id ) / add_task( task, latch, id ): one more wrapper with a
\* drain loop on queue id around the callable
add_wrapper(t, id) ==
  [t EXCEPT !.wraps = IF Len(t.wraps) < MaxWraps
                      THEN Append(t.wraps, id)
                      ELSE [t.wraps EXCEPT ![MaxWraps] = id]]

\* the id a thread's task_runner was given: the index of a permanent worker,
\* the id start_temp_task_runners drew for a helper
own_queue(t) == IF t \in Helpers THEN temp[t].id ELSE t

\* the queue a scanning thread starts from: its own, or the drain loop's
Base(t) == IF stack[t] = << >> THEN own_queue(t) ELSE Head(stack[t])

\* where run_task returns to: the worker loop or the enclosing drain loop
ReturnPc(t) == IF stack[t] = << >> THEN "loop" ELSE "drain"

\* the thread ids start( ) can hand out in one run
Tids == 1 .. (MaxCalls * NumThreads)

\* the scheduler get_task_scheduler( ) returns: constructed and started, the
\* workers entering task_runner
Init ==
  /\ m_continue = TRUE
  /\ m_task_count = 0
  /\ m_tasks = [q \in Workers |-> EmptyQueue]
  /\ pc = [t \in AllThreads |->
             IF t = Client THEN "idle" ELSE IF t \in Helpers THEN "none" ELSE "loop"]
  /\ stack = [t \in AllThreads |-> << >>]
  /\ cur = [t \in AllThreads |-> NoTask]
  /\ m = [t \in AllThreads |-> 0]
  /\ latch = [group |-> 0, gate |-> 1]
  /\ executed = [i \in 1 .. MaxTasks |-> 0]
  /\ notified = [i \in 1 .. MaxTasks |-> 0]
  /\ next_id = 1
  /\ grp_size = 0
  /\ grp_first = 0
  /\ grp_left = 0
  /\ threw = [t \in Workers |-> FALSE]
  /\ m_data = [m_values |-> [i \in 0 .. (QueueSize - 1) |-> 0],
               m_front |-> 0, m_back |-> 0, m_is_full |-> FALSE]
  /\ m_mutex = 0
  /\ user = [u \in 1 .. NumUsers |-> [at |-> "idle", value |-> 0, result |-> "none"]]
  /\ pushed = << >>
  /\ popped = << >>
  /\ tc = [t \in Threads |-> -1]
  /\ issued = << >>
  /\ m_threads = [i \in 1 .. NumThreads |-> i]
  /\ m_thread_map = {<< i, i - 1 >> : i \in 1 .. NumThreads}
  /\ thread = [i \in Tids |-> IF i <= NumThreads
                                THEN [at |-> "loop", n |-> i - 1]
                                ELSE [at |-> "none", n |-> 0]]
  /\ life = [at |-> "idle", n |-> 0, block |-> FALSE, calls |-> << "start" >>,
             snap |-> [live |-> 1 .. NumThreads,
                       tasks |-> [q \in Workers |-> EmptyQueue]]]
  /\ m_other_threads = [h \in Helpers |-> "none"]
  /\ temp = [h \in Helpers |-> [owner |-> -1, id |-> 0, sem |-> 0, notifies |-> 0]]
  /\ scope_count = 0
  /\ fut = [i \in Futs |-> NoFuture]
  /\ ready = {}
  /\ got = [i \in Futs |-> [at |-> "none", value |-> NoValue]]
  /\ sem = [made |-> FALSE, count |-> 0, initial |-> 0, mutex |-> 0]
  /\ notifier = [u \in 1 .. NumUsers |-> [at |-> "idle", calls |-> 0]]
  /\ scan = NoScan
  /\ helper = [at |-> "none", self |-> FALSE, owners |-> 1, sem |-> 1, taken |-> 0]

\* ---------------------------------------------------------------- client
\* the empty callable stop( ) sends to queue n, wrapped by add_task( task, n )
SentinelTask(n) ==
  [id |-> 0, kind |-> "sentinel", wraps |-> << n >>]

\* a callable as add_task( task, get_task_id( ) ) wraps it
NewTask(k) ==
  [id |-> next_id, kind |-> k, wraps |-> << get_task_id >>]

\* add_task( task, latch ): get_task_id, wrap, then send_task
add_task ==
  /\ pc[Client] = "idle"
  /\ next_id <= MaxTasks
  /\ cur' = [cur EXCEPT ![Client] = NewTask("gated")]
  /\ m' = [m EXCEPT ![Client] = get_task_id]
  /\ m_task_count' = (m_task_count + 1) % NumThreads
  /\ next_id' = next_id + 1
  /\ pc' = [pc EXCEPT ![Client] = "c_send"]
  /\ UNCHANGED << m_continue, m_tasks, stack, latch, executed, notified,
                  grp_size, grp_left, grp_first, ext >>

\* create_task_group: a latch of sizeof...( tasks ), then schedule_task for each
task_group_call(at) ==
  /\ pc[Client] = at
  /\ grp_size = 0
  /\ \E k \in 1 .. MaxGroup :
       /\ next_id + k - 1 <= MaxTasks
       /\ grp_size' = k
       /\ grp_first' = next_id
       /\ grp_left' = k
       /\ latch' = [latch EXCEPT !.group = k]
  /\ pc' = [pc EXCEPT ![Client] = "grp"]
  /\ UNCHANGED << m_continue, m_task_count, m_tasks, stack, cur, m,
                  executed, notified, next_id, ext >>

\* create_task_group on the running scheduler
create_task_group == task_group_call("idle")

\* schedule_task: add_task of a closure that runs the callable and notifies
\* the latch at scope exit
schedule_task ==
  /\ pc[Client] = "grp"
  /\ cur' = [cur EXCEPT ![Client] = NewTask("sched")]
  /\ m' = [m EXCEPT ![Client] = get_task_id]
  /\ m_task_count' = (m_task_count + 1) % NumThreads
  /\ next_id' = next_id + 1
  /\ pc' = [pc EXCEPT ![Client] = "c_send"]
  /\ UNCHANGED << m_continue, m_tasks, stack, latch, executed, notified,
                  grp_size, grp_left, grp_first, ext >>

\* send_task on the client: spins until try_push_back stores the task
client_send_task ==
  /\ pc[Client] = "c_send"
  /\ ~full(m_tasks[m[Client]])
  /\ m_tasks' = [m_tasks EXCEPT ![m[Client]] = try_push_back(@, cur[Client])]
  /\ cur' = [cur EXCEPT ![Client] = NoTask]
  /\ m' = [m EXCEPT ![Client] = 0]
  /\ grp_left' = IF grp_left > 0 THEN grp_left - 1 ELSE 0
  /\ pc' = [pc EXCEPT ![Client] = IF grp_left > 1 THEN "grp" ELSE "idle"]
  /\ UNCHANGED << m_continue, m_task_count, stack, latch, executed, notified,
                  next_id, grp_size, grp_first, ext >>

\* the owner of the gate latch notifies it
notify_gate ==
  /\ pc[Client] = "idle"
  /\ latch.gate > 0
  /\ latch' = [latch EXCEPT !.gate = latch_notify(@)]
  /\ UNCHANGED << m_continue, m_task_count, m_tasks, pc, stack, cur, m,
                  executed, notified, next_id, grp_size, grp_left, grp_first, ext >>

\* stop: m_continue = false, then add_task( []( ) {}, n ) for every queue
stop ==
  /\ pc[Client] = "idle"
  /\ m_continue' = FALSE
  /\ pc' = [pc EXCEPT ![Client] = "stop_send"]
  /\ m' = [m EXCEPT ![Client] = 0]
  /\ cur' = [cur EXCEPT ![Client] = SentinelTask(0)]
  /\ UNCHANGED << m_task_count, m_tasks, stack, latch, executed, notified,
                  next_id, grp_size, grp_left, grp_first, ext >>

\* stop: send_task of the sentinel for queue n
stop_send ==
  /\ pc[Client] = "stop_send"
  /\ ~full(m_tasks[m[Client]])
  /\ m_tasks' = [m_tasks EXCEPT ![m[Client]] = try_push_back(@, cur[Client])]
  /\ IF m[Client] + 1 < NumThreads
     THEN /\ m' = [m EXCEPT ![Client] = @ + 1]
          /\ cur' = [cur EXCEPT ![Client] = SentinelTask(m[Client] + 1)]
          /\ pc' = pc
     ELSE /\ m' = [m EXCEPT ![Client] = 0]
          /\ cur' = [cur EXCEPT ![Client] = NoTask]
          /\ pc' = [pc EXCEPT ![Client] = "stop_join"]
  /\ UNCHANGED << m_continue, m_task_count, stack, latch, executed, notified,
                  next_id, grp_size, grp_left, grp_first, ext >>

\* stop( block = false ): th.detach( ) for every thread, no wait for its exit
stop_detach ==
  /\ pc[Client] = "stop_join"
  /\ IF m[Client] + 1 < NumThreads
     THEN /\ m' = [m EXCEPT ![Client] = @ + 1]
          /\ pc' = pc
     ELSE /\ m' = [m EXCEPT ![Client] = 0]
          /\ pc' = [pc EXCEPT ![Client] = "stopped"]
  /\ UNCHANGED << m_continue, m_task_count, m_tasks, stack, cur, latch,
                  executed, notified, next_id, grp_size, grp_left, grp_first, ext >>

\* stop( block = true ): th.join( ) for every thread, in order
stop_join ==
  /\ pc[Client] = "stop_join"
  /\ pc[m[Client]] \in {"done", "none"}
  /\ IF m[Client] + 1 < NumThreads
     THEN /\ m' = [m EXCEPT ![Client] = @ + 1]
          /\ pc' = pc
     ELSE /\ m' = [m EXCEPT ![Client] = 0]
          /\ pc' = [pc EXCEPT ![Client] = "stopped"]
  /\ UNCHANGED << m_continue, m_task_count, m_tasks, stack, cur, latch,
                  executed, notified, next_id, grp_size, grp_left, grp_first, ext >>

\* ---------------------------------------------------------------- worker
\* the queue the thread's next receive( ) reads
ScanQueue(t) == IF pc[t] = "steal" THEN m[t] ELSE Base(t)

\* task_runner: while( self->m_continue )
task_runner(t) ==
  /\ pc[t] = "loop"
  /\ pc' = [pc EXCEPT ![t] = IF m_continue THEN "own" ELSE "done"]
  /\ UNCHANGED << m_continue, m_task_count, m_tasks, stack, cur, m, latch,
                  executed, notified, next_id, grp_size, grp_left, grp_first, ext >>

\* m_tasks[q].receive( tsk ) returned true: wait_for_task_from_pool and
\* run_next_task hand the task to run_task
receive(t) ==
  /\ pc[t] \in {"own", "steal", "spin"}
  /\ ~empty(m_tasks[ScanQueue(t)])
  /\ cur' = [cur EXCEPT ![t] = pop_value(m_tasks[ScanQueue(t)])]
  /\ m_tasks' = [m_tasks EXCEPT ![ScanQueue(t)] = try_pop_front(@)]
  /\ pc' = [pc EXCEPT ![t] =
              IF pop_value(m_tasks[ScanQueue(t)]).kind = "gated" THEN "run" ELSE "call"]
  /\ m' = [m EXCEPT ![t] = 0]
  /\ UNCHANGED << m_continue, m_task_count, stack, latch, executed, notified,
                  next_id, grp_size, grp_left, grp_first, ext >>

\* m_tasks[q].receive( tsk ) returned false (queue empty, or the try-lock
\* failed): the scan moves to the next queue; after the last one the worker
\* spins on its own queue and run_next_task returns false, which ends the
\* innermost drain loop
receive_failed(t) ==
  /\ pc[t] \in {"own", "steal"}
  /\ LET nm == (ScanQueue(t) + 1) % NumThreads
     IN IF nm # Base(t)
        THEN /\ pc' = [pc EXCEPT ![t] = "steal"]
             /\ m' = [m EXCEPT ![t] = nm]
             /\ stack' = stack
        ELSE /\ m' = [m EXCEPT ![t] = 0]
             /\ IF stack[t] = << >>
                THEN /\ pc' = [pc EXCEPT ![t] = "spin"]
                     /\ stack' = stack
                ELSE /\ stack' = [stack EXCEPT ![t] = Tail(@)]
                     /\ pc' = [pc EXCEPT ![t] =
                                 IF Tail(stack[t]) = << >> THEN "loop" ELSE "drain"]
  /\ UNCHANGED << m_continue, m_task_count, m_tasks, cur, latch, executed,
                  notified, next_id, grp_size, grp_left, grp_first, ext >>

\* run_task on a task with a latch: is_ready reads the latch; a task that is
\* not ready is re-submitted, a ready one is invoked
run_task(t) ==
  /\ pc[t] = "run"
  /\ pc' = [pc EXCEPT ![t] = IF is_ready(cur[t]) THEN "call" ELSE "getid"]
  /\ UNCHANGED << m_continue, m_task_count, m_tasks, stack, cur, m, latch,
                  executed, notified, next_id, grp_size, grp_left, grp_first, ext >>

\* a re-submission that always targets the worker's own queue
resubmit_own(t) ==
  /\ pc[t] = "getid"
  /\ cur' = [cur EXCEPT ![t] = add_wrapper(@, t)]
  /\ m' = [m EXCEPT ![t] = t]
  /\ pc' = [pc EXCEPT ![t] = "send"]
  /\ UNCHANGED << m_continue, m_task_count, m_tasks, stack, latch, executed,
                  notified, next_id, grp_size, grp_left, grp_first, ext >>

\* run_task's add_task( function, latch ): get_task_id and one more wrapper
resubmit(t) ==
  /\ pc[t] = "getid"
  /\ cur' = [cur EXCEPT ![t] = add_wrapper(@, get_task_id)]
  /\ m' = [m EXCEPT ![t] = get_task_id]
  /\ m_task_count' = (m_task_count + 1) % NumThreads
  /\ pc' = [pc EXCEPT ![t] = "send"]
  /\ UNCHANGED << m_continue, m_tasks, stack, latch, executed, notified,
                  next_id, grp_size, grp_left, grp_first, ext >>

\* send_task: spins until m_tasks[id].send( tsk ) stores the task
send_task(t) ==
  /\ pc[t] = "send"
  /\ ~full(m_tasks[m[t]])
  /\ m_tasks' = [m_tasks EXCEPT ![m[t]] = try_push_back(@, cur[t])]
  /\ cur' = [cur EXCEPT ![t] = NoTask]
  /\ m' = [m EXCEPT ![t] = 0]
  /\ pc' = [pc EXCEPT ![t] = ReturnPc(t)]
  /\ UNCHANGED << m_continue, m_task_count, stack, latch, executed, notified,
                  next_id, grp_size, grp_left, grp_first, ext >>

\* the latch counts after task_t::operator( ): it invokes m_function only
task_invoke(tsk, l) == l

\* a run_task without its try / catch: the exception ends the thread
finish_terminate(t, throws) ==
  /\ cur' = [cur EXCEPT ![t] = NoTask]
  /\ IF throws
     THEN /\ stack' = stack
          /\ pc' = [pc EXCEPT ![t] = "done"]
     ELSE /\ stack' = [stack EXCEPT ![t] = cur[t].wraps \o @]
          /\ pc' = [pc EXCEPT ![t] = "drain"]

\* the wrapper after its callable: a throw leaves through every wrapper to
\* run_task's catch, a return enters the drain loops, innermost first
finish(t, throws) ==
  /\ cur' = [cur EXCEPT ![t] = NoTask]
  /\ IF throws
     THEN /\ stack' = stack
          /\ pc' = [pc EXCEPT ![t] = ReturnPc(t)]
     ELSE /\ stack' = [stack EXCEPT ![t] = cur[t].wraps \o @]
          /\ pc' = [pc EXCEPT ![t] = "drain"]

\* ( *uptr )( ) with its outcome: the callable returns or throws (the empty
\* callable of a sentinel returns)
invoke_outcome(t, throws) ==
  /\ pc[t] = "call"
  /\ cur[t].kind # "scope"
  /\ throws => cur[t].kind # "sentinel"
  /\ executed' = IF cur[t].kind = "sentinel"
                 THEN executed
                 ELSE [executed EXCEPT ![cur[t].id] = IF @ < 2 THEN @ + 1 ELSE @]
  /\ latch' = task_invoke(cur[t], latch)
  /\ IF cur[t].kind = "sched"
     THEN /\ pc' = [pc EXCEPT ![t] = IF throws THEN "notify_throw" ELSE "notify"]
          /\ UNCHANGED << stack, cur >>
     ELSE finish(t, throws)
  /\ UNCHANGED << m_continue, m_task_count, m_tasks, m, notified, next_id,
                  grp_size, grp_left, grp_first >>

\* ( *uptr )( ): the callable runs, and returns or throws
invoke(t) ==
  /\ \E throws \in BOOLEAN : invoke_outcome(t, throws)
  /\ UNCHANGED ext

\* a closure without the at_exit guard: the latch is left alone
at_exit_skip(t) ==
  /\ pc[t] \in {"notify", "notify_throw"}
  /\ finish(t, pc[t] = "notify_throw")
  /\ UNCHANGED << m_continue, m_task_count, m_tasks, m, latch, executed,
                  notified, next_id, grp_size, grp_left, grp_first, ext >>

\* schedule_task's closure: at_exit runs sem->notify( ), return or throw
at_exit_notify(t) ==
  /\ pc[t] \in {"notify", "notify_throw"}
  /\ latch' = [latch EXCEPT !.group = latch_notify(@)]
  /\ notified' = [notified EXCEPT ![cur[t].id] = IF @ < 2 THEN @ + 1 ELSE @]
  /\ finish(t, pc[t] = "notify_throw")
  /\ UNCHANGED << m_continue, m_task_count, m_tasks, m, executed, next_id,
                  grp_size, grp_left, grp_first, ext >>

\* a drain loop that calls run_next_task( id ) without reading m_continue
drain_always(t) ==
  /\ pc[t] = "drain"
  /\ pc' = [pc EXCEPT ![t] = "own"]
  /\ UNCHANGED << m_continue, m_task_count, m_tasks, stack, cur, m, latch, executed,
                  notified, next_id, grp_size, grp_left, grp_first, ext >>

\* the wrapper's while( m_continue and run_next_task( id ) )
drain(t) ==
  /\ pc[t] = "drain"
  /\ IF m_continue
     THEN /\ pc' = [pc EXCEPT ![t] = "own"]
          /\ stack' = stack
     ELSE /\ stack' = [stack EXCEPT ![t] = Tail(@)]
          /\ pc' = [pc EXCEPT ![t] =
                      IF Tail(stack[t]) = << >> THEN "loop" ELSE "drain"]
  /\ UNCHANGED << m_continue, m_task_count, m_tasks, cur, m, latch, executed,
                  notified, next_id, grp_size, grp_left, grp_first, ext >>

WorkerStep(t) ==
  \/ task_runner(t)
  \/ receive(t)
  \/ receive_failed(t)
  \/ run_task(t)
  \/ resubmit(t)
  \/ send_task(t)
  \/ invoke(t)
  \/ at_exit_notify(t)
  \/ drain(t)

ClientStep ==
  \/ add_task
  \/ create_task_group
  \/ schedule_task
  \/ client_send_task
  \/ notify_gate
  \/ stop
  \/ stop_send
  \/ stop_join

Next == ClientStep \/ \E t \in Workers : WorkerStep(t)

Spec == Init /\ [][Next]_vars

TypeOK ==
  /\ m_continue \in BOOLEAN
  /\ m_task_count \in 0 .. (NumThreads - 1)
  /\ \A t \in Threads : Len(stack[t]) <= (MaxTasks + NumThreads) * MaxWraps
  /\ \A i \in 1 .. MaxTasks : executed[i] \in 0 .. 2 /\ notified[i] \in 0 .. 2

\* The scheduling the program runs under: every thread keeps taking steps, a
\* retried try-lock does not fail forever, and the client finishes the call
\* it is in (it need not make another call).
Fairness ==
  /\ \A t \in Workers : WF_vars(WorkerStep(t))
  /\ \A t \in Workers : SF_vars(receive(t))
  /\ \A t \in Workers : SF_vars(send_task(t))
  /\ WF_vars(schedule_task)
  /\ SF_vars(client_send_task)
  /\ SF_vars(stop_send)
  /\ WF_vars(stop_join)

FairSpec == Init /\ [][Next]_vars /\ Fairness

\* The liveness claims are checked on the calls each of them is about, so
\* that the check covers every behaviour of those calls.
\* what a worker does when only add_task( f, latch ) submits: no closure of
\* schedule_task, hence no at_exit
GatedStep(t) ==
  \/ task_runner(t)
  \/ receive(t)
  \/ receive_failed(t)
  \/ run_task(t)
  \/ resubmit(t)
  \/ send_task(t)
  \/ invoke(t)
  \/ drain(t)

\* add_task( f, latch ) and the notify of the latch, on a running scheduler
NextGated ==
  \/ add_task
  \/ client_send_task
  \/ notify_gate
  \/ \E t \in Workers : GatedStep(t)

FairnessGated ==
  /\ \A t \in Workers : WF_vars(GatedStep(t))
  /\ \A t \in Workers : SF_vars(receive(t))
  /\ \A t \in Workers : SF_vars(send_task(t))
  /\ SF_vars(client_send_task)

FairGated == Init /\ [][NextGated]_vars /\ FairnessGated

\* create_task_group next to add_task( f, latch ) whose latch stays above
\* zero, on a running scheduler
NextGroup ==
  \/ add_task
  \/ create_task_group
  \/ schedule_task
  \/ client_send_task
  \/ \E t \in Workers : WorkerStep(t)

FairGroup == Init /\ [][NextGroup]_vars /\ Fairness

\* the steps of a thread that runs tasks without a latch of their own: every
\* task popped is invoked, and each entry of stack[t] is then the drain loop
\* of the wrapper one activation of run_task is running
NestStep(t) ==
  \/ task_runner(t)
  \/ receive(t)
  \/ receive_failed(t)
  \/ invoke(t)
  \/ at_exit_notify(t)
  \/ drain(t)

NextNest ==
  \/ create_task_group
  \/ schedule_task
  \/ client_send_task
  \/ \E t \in Workers : NestStep(t)

\* one task group on a running scheduler
SpecNest == Init /\ [][NextNest]_vars

\* stop( ) after add_task( f, latch ) whose latch stays above zero
NextStopping ==
  \/ add_task
  \/ client_send_task
  \/ stop
  \/ stop_send
  \/ stop_join
  \/ \E t \in Workers : GatedStep(t)

FairStopping == Init /\ [][NextStopping]_vars /\ Fairness

\* ---------------------------------------------- rejected submissions
\* create_task_group called after stop( ) has returned
create_task_group_stopped == task_group_call("stopped")

\* bool send_task as the push_back of the task with m_continue as its
\* predicate: with the lock and a queue that is not full, push_back returns
\* false once m_continue is false (on a full queue it waits); add_task hands
\* the false to its caller
send_task_rejected ==
  /\ pc[Client] = "c_send"
  /\ ~m_continue
  /\ ~full(m_tasks[m[Client]])
  /\ IF cur[Client].kind = "sched"
     THEN /\ pc' = [pc EXCEPT ![Client] = "c_failed"]
          /\ UNCHANGED << cur, m >>
     ELSE /\ pc' = [pc EXCEPT ![Client] = "idle"]
          /\ cur' = [cur EXCEPT ![Client] = NoTask]
          /\ m' = [m EXCEPT ![Client] = 0]
  /\ UNCHANGED << m_continue, m_task_count, m_tasks, stack, latch, executed,
                  notified, next_id, grp_size, grp_left, grp_first, ext >>

\* a helper that drops the failed callable without telling the latch
reject_skip ==
  /\ pc[Client] = "c_failed"
  /\ cur' = [cur EXCEPT ![Client] = NoTask]
  /\ m' = [m EXCEPT ![Client] = 0]
  /\ grp_left' = IF grp_left > 0 THEN grp_left - 1 ELSE 0
  /\ pc' = [pc EXCEPT ![Client] = IF grp_left > 1 THEN "grp" ELSE "idle"]
  /\ UNCHANGED << m_continue, m_task_count, m_tasks, stack, latch, executed,
                  notified, next_id, grp_size, grp_first, ext >>

\* create_task_group / create_waitable_task:
\* if( !schedule_task( sem, task, ts ) ) sem.notify( )
reject_notify ==
  /\ pc[Client] = "c_failed"
  /\ latch' = [latch EXCEPT !.group = latch_notify(@)]
  /\ notified' = [notified EXCEPT ![cur[Client].id] = IF @ < 2 THEN @ + 1 ELSE @]
  /\ cur' = [cur EXCEPT ![Client] = NoTask]
  /\ m' = [m EXCEPT ![Client] = 0]
  /\ grp_left' = IF grp_left > 0 THEN grp_left - 1 ELSE 0
  /\ pc' = [pc EXCEPT ![Client] = IF grp_left > 1 THEN "grp" ELSE "idle"]
  /\ UNCHANGED << m_continue, m_task_count, m_tasks, stack, executed,
                  next_id, grp_size, grp_first, ext >>

NextRejecting ==
  \/ Next
  \/ create_task_group_stopped
  \/ send_task_rejected
  \/ reject_notify

\* the scheduler whose send_task gives up on a full queue after stop( )
SpecRejecting == Init /\ [][NextRejecting]_vars

\* run_task's add_task( function, latch ) through the bool send_task: the
\* push_back returns false once m_continue is false, add_task returns the
\* false, run_task does not look at it and returns; the task_t made for the
\* re-submission, which holds the function moved out of the popped task,
\* is destroyed with the argument of send_task
run_task_rejected(t) ==
  /\ pc[t] = "send"
  /\ ~m_continue
  /\ ~full(m_tasks[m[t]])
  /\ cur' = [cur EXCEPT ![t] = NoTask]
  /\ m' = [m EXCEPT ![t] = 0]
  /\ pc' = [pc EXCEPT ![t] = ReturnPc(t)]
  /\ UNCHANGED << m_continue, m_task_count, m_tasks, stack, latch, executed,
                  notified, next_id, grp_size, grp_left, grp_first, ext >>

NextResend ==
  \/ NextStopping
  \/ notify_gate
  \/ \E t \in Workers : run_task_rejected(t)

\* tasks with a latch on a scheduler that is stopped while workers hold them
SpecResend == Init /\ [][NextResend]_vars

\* ------------------------------------------------- exceptions of callables
\* ( *uptr )( ) inside run_task's try block, remembering that catch( ... ) ran
invoke_caught(t) ==
  \E throws \in BOOLEAN :
    /\ invoke_outcome(t, throws)
    /\ threw' = [threw EXCEPT ![t] = @ \/ throws]
    /\ UNCHANGED << buffer, counter, lifecycle, scopes, futures, latches, scans, handles >>

ThrowStep(t) ==
  \/ task_runner(t)
  \/ receive(t)
  \/ receive_failed(t)
  \/ run_task(t)
  \/ resubmit(t)
  \/ send_task(t)
  \/ invoke_caught(t)
  \/ at_exit_notify(t)
  \/ drain(t)

NextThrow ==
  \/ add_task
  \/ create_task_group
  \/ schedule_task
  \/ client_send_task
  \/ notify_gate
  \/ \E t \in Workers : ThrowStep(t)

\* the running scheduler, with the exceptions its workers caught on record
SpecThrow == Init /\ [][NextThrow]_vars

\* ------------------------------------------- locking_circular_buffer
\* One buffer with its ring of Sz = QueueSize slots, used by NumUsers threads.
\* A slot holds a value (a positive number) or 0, the empty unique_ptr.
Users == 1 .. NumUsers

\* locking_circular_buffer::empty
ring_empty(r) == ~r.m_is_full /\ r.m_front = r.m_back

\* locking_circular_buffer::full
ring_full(r) == r.m_is_full

\* the index after i in the ring
ring_next(i) == (i + 1) % QueueSize

\* a pop that leaves m_front where it is
ring_pop_stay(r) ==
  [r EXCEPT !.m_values[r.m_front] = 0, !.m_is_full = FALSE]

\* the members after a pop: the front slot is moved from, m_is_full is
\* cleared, m_front advances at scope exit
ring_pop(r) ==
  [r EXCEPT !.m_values[r.m_front] = 0,
            !.m_is_full = FALSE,
            !.m_front = ring_next(r.m_front)]

\* a push that never sets m_is_full
ring_push_no_flag(r, v) ==
  [r EXCEPT !.m_values[r.m_back] = v,
            !.m_back = ring_next(r.m_back)]

\* the members after a push: the value is moved into the back slot, m_back
\* advances, m_is_full = ( m_front == m_back )
ring_push(r, v) ==
  [r EXCEPT !.m_values[r.m_back] = v,
            !.m_back = ring_next(r.m_back),
            !.m_is_full = (r.m_front = ring_next(r.m_back))]

\* what every step on the buffer leaves alone
buffer_frame ==
  << m_task_count, m_tasks, pc, stack, cur, m, latch, executed, notified,
     next_id, grp_size, grp_first, grp_left, threw, counter, lifecycle, scopes,
     futures, latches, scans, handles >>

\* the user's call has returned
returns(u, res) ==
  user' = [user EXCEPT ![u] = [at |-> "idle", value |-> 0, result |-> res]]

\* try_push_back: try_to_lock, fail without the lock or on a full ring
ring_try_push_back(u) ==
  /\ user[u].at = "idle"
  /\ Len(pushed) < MaxPush
  /\ \E owns \in (IF m_mutex = 0 THEN BOOLEAN ELSE {FALSE}) :
       IF owns /\ ~ring_full(m_data)
       THEN /\ m_data' = ring_push(m_data, Len(pushed) + 1)
            /\ pushed' = Append(pushed, Len(pushed) + 1)
            /\ returns(u, "success")
       ELSE /\ returns(u, "failed")
            /\ UNCHANGED << m_data, pushed >>
  /\ UNCHANGED << m_continue, m_mutex, popped, buffer_frame >>

\* a try_pop_front without the test of empty( ): on an empty ring it clears
\* m_is_full and advances m_front before it returns the empty pointer
ring_try_pop_front_untested(u) ==
  /\ user[u].at = "idle"
  /\ \E owns \in (IF m_mutex = 0 THEN BOOLEAN ELSE {FALSE}) :
       IF owns
       THEN /\ m_data' = ring_pop(m_data)
            /\ IF ring_empty(m_data)
               THEN returns(u, "nothing") /\ UNCHANGED popped
               ELSE /\ popped' = Append(popped, m_data.m_values[m_data.m_front])
                    /\ returns(u, "value")
       ELSE /\ returns(u, "nothing")
            /\ UNCHANGED << m_data, popped >>
  /\ UNCHANGED << m_continue, m_mutex, pushed, buffer_frame >>

\* try_pop_front: try_to_lock, an empty pointer without the lock or on an
\* empty ring
ring_try_pop_front(u) ==
  /\ user[u].at = "idle"
  /\ \E owns \in (IF m_mutex = 0 THEN BOOLEAN ELSE {FALSE}) :
       IF owns /\ ~ring_empty(m_data)
       THEN /\ popped' = Append(popped, m_data.m_values[m_data.m_front])
            /\ m_data' = ring_pop(m_data)
            /\ returns(u, "value")
       ELSE /\ returns(u, "nothing")
            /\ UNCHANGED << m_data, popped >>
  /\ UNCHANGED << m_continue, m_mutex, pushed, buffer_frame >>

\* pop_front( ): lock, wait on m_not_empty until the ring is not empty, pop
pop_front(u) ==
  /\ user[u].at = "idle"
  /\ m_mutex = 0
  /\ ~ring_empty(m_data)
  /\ popped' = Append(popped, m_data.m_values[m_data.m_front])
  /\ m_data' = ring_pop(m_data)
  /\ returns(u, "value")
  /\ UNCHANGED << m_continue, m_mutex, pushed, buffer_frame >>

\* pop_front( can_continue, timeout ): lock; an empty ring sends the caller
\* into wait_impl::wait_for on m_not_empty, which gives the lock up
pop_front_enter(u) ==
  /\ user[u].at = "idle"
  /\ m_mutex = 0
  /\ IF ring_empty(m_data)
     THEN /\ user' = [user EXCEPT ![u].at = "pop_wait"]
          /\ m_mutex' = 0
     ELSE /\ user' = [user EXCEPT ![u].at = "pop_check"]
          /\ m_mutex' = u
  /\ UNCHANGED << m_continue, m_data, pushed, popped, buffer_frame >>

\* wait_impl::wait_for inside pop_front: woken or timed out, the caller owns
\* the lock again; status is the predicate, the loop goes on while
\* can_continue( ) and not status, the result is status && can_continue( )
pop_front_wait(u) ==
  /\ user[u].at = "pop_wait"
  /\ m_mutex = 0
  /\ ~ring_empty(m_data) \/ ~m_continue
  /\ IF ~ring_empty(m_data) /\ m_continue
     THEN /\ user' = [user EXCEPT ![u].at = "pop_check"]
          /\ m_mutex' = u
     ELSE /\ returns(u, "nothing")
          /\ m_mutex' = 0
  /\ UNCHANGED << m_continue, m_data, pushed, popped, buffer_frame >>

\* a pop_front( can_continue, timeout ) without its last test of
\* can_continue( )
pop_front_unchecked(u) ==
  /\ user[u].at = "pop_check"
  /\ m_mutex = u
  /\ popped' = Append(popped, m_data.m_values[m_data.m_front])
  /\ m_data' = ring_pop(m_data)
  /\ returns(u, "value")
  /\ m_mutex' = 0
  /\ UNCHANGED << m_continue, pushed, buffer_frame >>

\* pop_front( can_continue, timeout ) with the lock: if( not can_continue( ) )
\* return {}; else pop
pop_front_check(u) ==
  /\ user[u].at = "pop_check"
  /\ m_mutex = u
  /\ IF m_continue
     THEN /\ popped' = Append(popped, m_data.m_values[m_data.m_front])
          /\ m_data' = ring_pop(m_data)
          /\ returns(u, "value")
     ELSE /\ returns(u, "nothing")
          /\ UNCHANGED << m_data, popped >>
  /\ m_mutex' = 0
  /\ UNCHANGED << m_continue, pushed, buffer_frame >>

\* push_back( value, can_continue, timeout ): lock; a full ring sends the
\* caller into m_not_full.wait, which gives the lock up
push_back_enter(u) ==
  /\ user[u].at = "idle"
  /\ Len(pushed) < MaxPush
  /\ m_mutex = 0
  /\ IF ring_full(m_data)
     THEN /\ user' = [user EXCEPT ![u].at = "push_wait"]
          /\ m_mutex' = 0
     ELSE /\ user' = [user EXCEPT ![u].at = "push_check"]
          /\ m_mutex' = u
  /\ UNCHANGED << m_continue, m_data, pushed, popped, buffer_frame >>

\* m_not_full.wait( lck, can_continue( ) and !full( ) ): the wait ends, with
\* the lock, only when the predicate holds
push_back_wait(u) ==
  /\ user[u].at = "push_wait"
  /\ m_mutex = 0
  /\ m_continue /\ ~ring_full(m_data)
  /\ user' = [user EXCEPT ![u].at = "push_check"]
  /\ m_mutex' = u
  /\ UNCHANGED << m_continue, m_data, pushed, popped, buffer_frame >>

\* push_back with the lock and a ring that is not full: wait_impl::wait_for
\* returns at once with status true, can_push = status && can_continue( );
\* false is returned without a push, else the value is stored
push_back_check(u) ==
  /\ user[u].at = "push_check"
  /\ m_mutex = u
  /\ IF m_continue
     THEN /\ m_data' = ring_push(m_data, Len(pushed) + 1)
          /\ pushed' = Append(pushed, Len(pushed) + 1)
          /\ returns(u, "true")
     ELSE /\ returns(u, "false")
          /\ UNCHANGED << m_data, pushed >>
  /\ m_mutex' = 0
  /\ UNCHANGED << m_continue, popped, buffer_frame >>

\* the predicate the callers pass reads m_continue; stop( ) clears it
clear_continue ==
  /\ m_continue
  /\ m_continue' = FALSE
  /\ UNCHANGED << buffer, buffer_frame >>

BufferStep(u) ==
  \/ ring_try_push_back(u)
  \/ ring_try_pop_front(u)
  \/ pop_front(u)
  \/ pop_front_enter(u)
  \/ pop_front_wait(u)
  \/ pop_front_check(u)
  \/ push_back_enter(u)
  \/ push_back_wait(u)
  \/ push_back_check(u)

NextBuffer == clear_continue \/ \E u \in Users : BufferStep(u)

\* one buffer and the threads that push to it and pop from it
SpecBuffer == Init /\ [][NextBuffer]_vars

\* --------------------------------------- the wait of push_back by notify
\* The same buffer with the condition variable m_not_full made explicit: a
\* thread inside m_not_full.wait leaves it when m_not_full is notified (or
\* on a spurious wakeup, which the standard allows and never promises), takes
\* the lock and tests the predicate. "push_wait" is blocked in the wait,
\* "push_woken" is woken and about to take the lock.
\* the threads blocked in m_not_full.wait
not_full_waiters == {w \in Users : user[w].at = "push_wait"}

\* pop_front( ): lock, pop on a ring that is not empty, and at scope exit
\* m_not_full.notify_one( ), which wakes one of the waiting threads
pop_front_notify(u) ==
  /\ user[u].at = "idle"
  /\ m_mutex = 0
  /\ ~ring_empty(m_data)
  /\ popped' = Append(popped, m_data.m_values[m_data.m_front])
  /\ m_data' = ring_pop(m_data)
  /\ IF not_full_waiters = {}
     THEN returns(u, "value")
     ELSE \E w \in not_full_waiters :
            user' = [user EXCEPT ![u] = [at |-> "idle", value |-> 0,
                                         result |-> "value"],
                                 ![w].at = "push_woken"]
  /\ UNCHANGED << m_continue, m_mutex, pushed, buffer_frame >>

\* a spurious wakeup of m_not_full.wait
push_back_spurious(u) ==
  /\ user[u].at = "push_wait"
  /\ user' = [user EXCEPT ![u].at = "push_woken"]
  /\ UNCHANGED << m_continue, m_data, m_mutex, pushed, popped, buffer_frame >>

\* m_not_full.wait( lck, pred ) after a wakeup: with the lock again it tests
\* can_continue( ) and !full( ) and goes back to waiting when that is false
push_back_woken(u) ==
  /\ user[u].at = "push_woken"
  /\ m_mutex = 0
  /\ IF m_continue /\ ~ring_full(m_data)
     THEN /\ user' = [user EXCEPT ![u].at = "push_check"]
          /\ m_mutex' = u
     ELSE /\ user' = [user EXCEPT ![u].at = "push_wait"]
          /\ m_mutex' = 0
  /\ UNCHANGED << m_continue, m_data, pushed, popped, buffer_frame >>

WaitStep(u) ==
  \/ ring_try_push_back(u)
  \/ ring_try_pop_front(u)
  \/ pop_front_notify(u)
  \/ push_back_enter(u)
  \/ push_back_spurious(u)
  \/ push_back_woken(u)
  \/ push_back_check(u)

NextWaits == clear_continue \/ \E u \in Users : WaitStep(u)

\* a thread that was woken, or that owns the lock, goes on; nothing makes a
\* thread call the buffer, and nothing makes a wakeup happen without a notify
FairnessWaits ==
  \A u \in Users : WF_vars(push_back_woken(u)) /\ WF_vars(push_back_check(u))

FairWaits == Init /\ [][NextWaits]_vars /\ FairnessWaits

\* the values in the ring, from m_front to m_back
RECURSIVE ring_slots(_, _, _)
ring_slots(r, i, n) ==
  IF n = 0 THEN << >>
  ELSE << r.m_values[i] >> \o ring_slots(r, ring_next(i), n - 1)

\* the number of occupied slots
ring_count(r) ==
  IF r.m_is_full THEN QueueSize
  ELSE (r.m_back - r.m_front + QueueSize) % QueueSize

ring_contents(r) == ring_slots(r, r.m_front, ring_count(r))

\* the slots that hold a value
ring_occupied(r) == {i \in 0 .. (QueueSize - 1) : r.m_values[i] # 0}

\* the slots from m_front up to m_back, all of them when m_is_full
ring_span(r) ==
  {(r.m_front + k) % QueueSize : k \in 0 .. (ring_count(r) - 1)}

\* ------------------------------------------------------- get_task_id
\* The counter itself, not reduced modulo m_num_threads: every thread, worker
\* or client, may be inside get_task_id.
counter_frame ==
  << m_continue, m_tasks, pc, stack, cur, m, latch, executed, notified,
     next_id, grp_size, grp_first, grp_left, threw, buffer, lifecycle, scopes,
     futures, latches, scans, handles >>

\* a post-increment that reads the counter and loses its own update
count_read(t) ==
  /\ tc[t] = -1
  /\ m_task_count < MaxCount
  /\ tc' = [tc EXCEPT ![t] = m_task_count]
  /\ UNCHANGED << m_task_count, issued, counter_frame >>

\* auto const tc = m_task_count++ on the atomic counter
count_fetch_add(t) ==
  /\ tc[t] = -1
  /\ m_task_count < MaxCount
  /\ tc' = [tc EXCEPT ![t] = m_task_count]
  /\ m_task_count' = m_task_count + 1
  /\ UNCHANGED << issued, counter_frame >>

\* return tc % m_num_threads
count_return(t) ==
  /\ tc[t] >= 0
  /\ issued' = Append(issued, [c |-> tc[t], id |-> tc[t] % NumThreads])
  /\ tc' = [tc EXCEPT ![t] = -1]
  /\ UNCHANGED << m_task_count, counter_frame >>

NextCounter == \E t \in Threads : count_fetch_add(t) \/ count_return(t)

\* the threads of the program calling get_task_id
SpecCounter == Init /\ [][NextCounter]_vars

\* the counter values handed out so far, returned or still local to a call
Drawn ==
  {issued[i].c : i \in 1 .. Len(issued)} \cup {tc[t] : t \in {u \in Threads : tc[u] >= 0}}

\* ---------------------------------------------------- start and stop
\* The threads start( ) creates, by thread id, and the thread that calls
\* start( ) and stop( ). The queues hold only the sentinels of stop( ).
life_frame ==
  << m_task_count, pc, stack, cur, m, latch, executed, notified, next_id,
     grp_size, grp_first, grp_left, threw, buffer, counter, scopes, futures,
     latches, scans, handles >>

\* a scheduler that was constructed and not started
InitLife ==
  /\ m_continue = FALSE
  /\ m_task_count = 0
  /\ m_tasks = [q \in Workers |-> EmptyQueue]
  /\ pc = [t \in AllThreads |-> IF t = Client THEN "idle" ELSE "none"]
  /\ stack = [t \in AllThreads |-> << >>]
  /\ cur = [t \in AllThreads |-> NoTask]
  /\ m = [t \in AllThreads |-> 0]
  /\ latch = [group |-> 0, gate |-> 1]
  /\ executed = [i \in 1 .. MaxTasks |-> 0]
  /\ notified = [i \in 1 .. MaxTasks |-> 0]
  /\ next_id = 1
  /\ grp_size = 0
  /\ grp_first = 0
  /\ grp_left = 0
  /\ threw = [t \in Workers |-> FALSE]
  /\ m_data = [m_values |-> [i \in 0 .. (QueueSize - 1) |-> 0],
               m_front |-> 0, m_back |-> 0, m_is_full |-> FALSE]
  /\ m_mutex = 0
  /\ user = [u \in 1 .. NumUsers |-> [at |-> "idle", value |-> 0, result |-> "none"]]
  /\ pushed = << >>
  /\ popped = << >>
  /\ tc = [t \in Threads |-> -1]
  /\ issued = << >>
  /\ m_threads = << >>
  /\ m_thread_map = {}
  /\ thread = [i \in Tids |-> [at |-> "none", n |-> 0]]
  /\ life = [at |-> "idle", n |-> 0, block |-> FALSE, calls |-> << >>,
             snap |-> [live |-> {}, tasks |-> [q \in Workers |-> EmptyQueue]]]
  /\ m_other_threads = [h \in Helpers |-> "none"]
  /\ temp = [h \in Helpers |-> [owner |-> -1, id |-> 0, sem |-> 0, notifies |-> 0]]
  /\ scope_count = 0
  /\ fut = [i \in Futs |-> NoFuture]
  /\ ready = {}
  /\ got = [i \in Futs |-> [at |-> "none", value |-> NoValue]]
  /\ sem = [made |-> FALSE, count |-> 0, initial |-> 0, mutex |-> 0]
  /\ notifier = [u \in 1 .. NumUsers |-> [at |-> "idle", calls |-> 0]]
  /\ scan = NoScan
  /\ helper = [at |-> "none", self |-> FALSE, owners |-> 1, sem |-> 1, taken |-> 0]

\* the threads start( ) created that have not left task_runner
Live == {i \in Tids : thread[i].at \in {"loop", "wait"}}

\* thread ids not yet handed out
Unborn == {i \in Tids : thread[i].at = "none"}

\* the call returns: it is added to the calls made, and what the scheduler
\* looked like when the call before it returned is kept
life_return(call) ==
  [at |-> "idle", n |-> 0, block |-> FALSE,
   calls |-> Append(life.calls, call),
   snap |-> life.snap]

\* start( ): m_continue = true, then the loop over the queue indices
start ==
  /\ life.at = "idle"
  /\ Len(life.calls) < MaxCalls
  /\ m_continue' = TRUE
  /\ life' = [life EXCEPT !.at = "start", !.n = 0,
                           !.snap = [live |-> Live, tasks |-> m_tasks]]
  /\ UNCHANGED << m_tasks, m_threads, m_thread_map, thread, life_frame >>

\* one turn of start( )'s loop: create_thread, threads->push_back,
\* ( *thread_map )[id] = n; after the last turn start( ) returns
start_thread ==
  /\ life.at = "start"
  /\ Unborn # {}
  /\ LET id == CHOOSE i \in Unborn : \A j \in Unborn : i <= j IN
       /\ thread' = [thread EXCEPT ![id] = [at |-> "loop", n |-> life.n]]
       /\ m_threads' = Append(m_threads, id)
       /\ m_thread_map' = m_thread_map \cup {<< id, life.n >>}
  /\ life' = IF life.n + 1 < NumThreads
             THEN [life EXCEPT !.n = @ + 1]
             ELSE life_return("start")
  /\ UNCHANGED << m_continue, m_tasks, life_frame >>

\* stop( block ): m_continue = false, then the loop over the queues
life_stop ==
  /\ life.at = "idle"
  /\ Len(life.calls) < MaxCalls
  /\ m_continue' = FALSE
  /\ \E b \in BOOLEAN :
       life' = [life EXCEPT !.at = "stop_send", !.n = 0, !.block = b,
                            !.snap = [live |-> Live, tasks |-> m_tasks]]
  /\ UNCHANGED << m_tasks, m_threads, m_thread_map, thread, life_frame >>

\* one turn of stop( )'s first loop: add_task( []( ) {}, n ), whose send_task
\* spins while the queue is full
life_stop_send ==
  /\ life.at = "stop_send"
  /\ ~full(m_tasks[life.n])
  /\ m_tasks' = [m_tasks EXCEPT ![life.n] = try_push_back(@, SentinelTask(life.n))]
  /\ life' = IF life.n + 1 < NumThreads
             THEN [life EXCEPT !.n = @ + 1]
             ELSE [life EXCEPT !.at = "stop_join", !.n = 1]
  /\ UNCHANGED << m_continue, m_threads, m_thread_map, thread, life_frame >>

\* one turn of stop( )'s second loop: th.join( ) waits for the thread to
\* leave, th.detach( ) does not; either way the entry owns no thread then
life_stop_join ==
  /\ life.at = "stop_join"
  /\ life.n <= Len(m_threads)
  /\ life.block => thread[m_threads[life.n]].at = "exited"
  /\ m_threads' = [m_threads EXCEPT ![life.n] = 0]
  /\ life' = [life EXCEPT !.n = @ + 1]
  /\ UNCHANGED << m_continue, m_tasks, m_thread_map, thread, life_frame >>

\* threads->clear( ), and stop( ) returns
life_stop_clear ==
  /\ life.at = "stop_join"
  /\ life.n > Len(m_threads)
  /\ m_threads' = << >>
  /\ life' = life_return("stop")
  /\ UNCHANGED << m_continue, m_tasks, m_thread_map, thread, life_frame >>

\* task_runner of thread i: while( m_continue ), else the thread ends
life_task_runner(i) ==
  /\ thread[i].at = "loop"
  /\ thread' = [thread EXCEPT ![i].at = IF m_continue THEN "wait" ELSE "exited"]
  /\ UNCHANGED << m_continue, m_tasks, m_threads, m_thread_map, life, life_frame >>

\* wait_for_task_from_pool and run_task of thread i: a task is taken from
\* its own queue or stolen, and run
life_receive(i) ==
  /\ thread[i].at = "wait"
  /\ \E q \in Workers :
       /\ ~empty(m_tasks[q])
       /\ m_tasks' = [m_tasks EXCEPT ![q] = try_pop_front(@)]
  /\ thread' = [thread EXCEPT ![i].at = "loop"]
  /\ UNCHANGED << m_continue, m_threads, m_thread_map, life, life_frame >>

NextLife ==
  \/ start
  \/ start_thread
  \/ life_stop
  \/ life_stop_send
  \/ life_stop_join
  \/ life_stop_clear
  \/ \E i \in Tids : life_task_runner(i) \/ life_receive(i)

\* a scheduler from its construction on, started and stopped by one thread
SpecLife == InitLife /\ [][NextLife]_vars

\* the last call that returned, and the one before it
LastCall == IF life.calls = << >> THEN "none" ELSE life.calls[Len(life.calls)]

CallBefore ==
  IF Len(life.calls) < 2 THEN "none" ELSE life.calls[Len(life.calls) - 1]

\* ----------------------------------------- am_i_in_pool during stop
\* m_threads is a lockable_value_t: m_threads.get( ) locks its mutex until
\* the value returned goes out of scope. start( ) holds it over its loop,
\* stop( ) from before the first join to threads->clear( ), am_i_in_pool
\* over its scan of the vector. The owner follows from where the threads are.
pool_frame ==
  << pc, stack, cur, m, latch, executed, notified, next_id, grp_size,
     grp_first, grp_left, threw, buffer, counter, scopes, futures, latches,
     scans, handles >>

\* some thread holds the mutex of m_threads
m_threads_locked ==
  \/ life.at \in {"start", "stop_join"}
  \/ \E i \in Tids : thread[i].at = "scan"

\* a callable that calls am_i_in_pool( ), as add_task( task ) wraps it
pool_task == [id |-> 0, kind |-> "am_i_in_pool", wraps |-> << get_task_id >>]

\* the callables that call am_i_in_pool and are queued or running
Asking ==
  Cardinality({<< q, k >> \in Workers \X (1 .. QueueSize) :
                 k <= Len(m_tasks[q]) /\ m_tasks[q][k].kind = "am_i_in_pool"})
    + Cardinality({i \in Tids : thread[i].at \in {"am_i_in_pool", "scan"}})

\* add_task( task ) with that callable: get_task_id, then send_task, which
\* spins while the queue is full
pool_add_task ==
  /\ life.at = "idle"
  /\ Asking < MaxAsk
  /\ ~full(m_tasks[get_task_id])
  /\ m_tasks' = [m_tasks EXCEPT ![get_task_id] = try_push_back(@, pool_task)]
  /\ m_task_count' = (m_task_count + 1) % NumThreads
  /\ UNCHANGED << m_continue, m_threads, m_thread_map, thread, life, pool_frame >>

\* start( ): m_continue = true, then m_threads.get( )
pool_start ==
  /\ life.at = "idle"
  /\ Len(life.calls) < MaxCalls
  /\ m_continue' = TRUE
  /\ life' = [life EXCEPT !.at = "start_lock", !.n = 0,
                           !.snap = [live |-> Live, tasks |-> m_tasks]]
  /\ UNCHANGED << m_task_count, m_tasks, m_threads, m_thread_map, thread, pool_frame >>

\* auto threads = m_threads.get( ) of start( ): waits for the mutex
pool_start_lock ==
  /\ life.at = "start_lock"
  /\ ~m_threads_locked
  /\ life' = [life EXCEPT !.at = "start"]
  /\ UNCHANGED << m_continue, m_task_count, m_tasks, m_threads, m_thread_map,
                  thread, pool_frame >>

\* one turn of stop( )'s first loop; after the last one stop( ) is at
\* auto threads = m_threads.get( )
pool_stop_send ==
  /\ life.at = "stop_send"
  /\ ~full(m_tasks[life.n])
  /\ m_tasks' = [m_tasks EXCEPT ![life.n] = try_push_back(@, SentinelTask(life.n))]
  /\ life' = IF life.n + 1 < NumThreads
             THEN [life EXCEPT !.n = @ + 1]
             ELSE [life EXCEPT !.at = "stop_lock", !.n = 1]
  /\ UNCHANGED << m_continue, m_task_count, m_threads, m_thread_map, thread,
                  pool_frame >>

\* auto threads = m_threads.get( ) of stop( ): waits for the mutex, which
\* stop( ) then holds over the joins
pool_stop_lock ==
  /\ life.at = "stop_lock"
  /\ ~m_threads_locked
  /\ life' = [life EXCEPT !.at = "stop_join"]
  /\ UNCHANGED << m_continue, m_task_count, m_tasks, m_threads, m_thread_map,
                  thread, pool_frame >>

\* wait_for_task_from_pool and run_task of thread i: the task taken is a
\* sentinel, which returns at once, or the callable that calls am_i_in_pool
pool_receive(i) ==
  /\ thread[i].at = "wait"
  /\ \E q \in Workers :
       /\ ~empty(m_tasks[q])
       /\ m_tasks' = [m_tasks EXCEPT ![q] = try_pop_front(@)]
       /\ thread' = [thread EXCEPT ![i].at =
                       IF pop_value(m_tasks[q]).kind = "am_i_in_pool"
                       THEN "am_i_in_pool" ELSE "loop"]
  /\ UNCHANGED << m_continue, m_task_count, m_threads, m_thread_map, life,
                  pool_frame >>

\* auto threads = m_threads.get( ) of am_i_in_pool on thread i: waits for
\* the mutex
pool_lock(i) ==
  /\ thread[i].at = "am_i_in_pool"
  /\ ~m_threads_locked
  /\ thread' = [thread EXCEPT ![i].at = "scan"]
  /\ UNCHANGED << m_continue, m_task_count, m_tasks, m_threads, m_thread_map,
                  life, pool_frame >>

\* the scan of the vector, the mutex released, the scan of the helper list;
\* am_i_in_pool returns, the callable ignores the result, run_task returns
pool_return(i) ==
  /\ thread[i].at = "scan"
  /\ thread' = [thread EXCEPT ![i].at = "loop"]
  /\ UNCHANGED << m_continue, m_task_count, m_tasks, m_threads, m_thread_map,
                  life, pool_frame >>

NextPool ==
  \/ pool_add_task
  \/ pool_start
  \/ pool_start_lock
  \/ start_thread
  \/ life_stop
  \/ pool_stop_send
  \/ pool_stop_lock
  \/ life_stop_join
  \/ life_stop_clear
  \/ \E i \in Tids : life_task_runner(i) \/ pool_receive(i) \/ pool_lock(i) \/ pool_return(i)

\* a scheduler from its construction on, started and stopped by one thread
\* while its tasks call am_i_in_pool
SpecPool == InitLife /\ [][NextPool]_vars

\* ------------------------------------- wait_for_scope and its helpers
\* A callable of kind "scope" calls wait_for( w ) on the scheduler it runs
\* on, w being the latch of the task group: wait_for_scope starts one helper
\* thread, runs w.wait( ) and notifies the helper's latch at scope exit.
scope_frame == << threw, buffer, counter, lifecycle, futures, latches, scans, handles >>

\* add_task( f ) of a callable that calls wait_for
add_scope_task ==
  /\ pc[Client] = "idle"
  /\ next_id <= MaxTasks
  /\ scope_count < MaxScopes
  /\ scope_count' = scope_count + 1
  /\ cur' = [cur EXCEPT ![Client] = NewTask("scope")]
  /\ m' = [m EXCEPT ![Client] = get_task_id]
  /\ m_task_count' = (m_task_count + 1) % NumThreads
  /\ next_id' = next_id + 1
  /\ pc' = [pc EXCEPT ![Client] = "c_send"]
  /\ UNCHANGED << m_continue, m_tasks, stack, latch, executed, notified,
                  grp_size, grp_left, grp_first, m_other_threads, temp,
                  scope_frame >>

\* the helper of the scope thread t is in
helper_of(t) == CHOOSE h \in Helpers : temp[h].owner = t

\* start_temp_task_runners( 1 ) up to create_thread: the latch of count 1,
\* the id drawn from the clock, the list entry emplaced as nullopt, the
\* helper thread created
scope_enter(t) ==
  /\ pc[t] = "call"
  /\ cur[t].kind = "scope"
  /\ \E h \in Helpers :
       /\ pc[h] = "none"
       /\ \A g \in Helpers : pc[g] = "none" => h <= g
       /\ \E id \in Workers :
            temp' = [temp EXCEPT ![h] = [owner |-> t, id |-> id, sem |-> 1,
                                         notifies |-> 0]]
       /\ m_other_threads' = [m_other_threads EXCEPT ![h] = "nullopt"]
       /\ pc' = [pc EXCEPT ![t] = "scope_assign", ![h] = "loop"]
  /\ executed' = [executed EXCEPT ![cur[t].id] = IF @ < 2 THEN @ + 1 ELSE @]
  /\ UNCHANGED << m_continue, m_task_count, m_tasks, stack, cur, m, latch,
                  notified, next_id, grp_size, grp_left, grp_first, scope_count,
                  scope_frame >>

\* *it = create_thread( thread_worker ); ( *it )->detach( ); then
\* wait_for_scope calls func. When the helper has already erased the entry,
\* it is a dangling iterator: the write goes to a freed list node, and the
\* list is left without the entry or holds the written node again
scope_assign(t) ==
  /\ pc[t] = "scope_assign"
  /\ IF m_other_threads[helper_of(t)] = "none"
       THEN \E o \in {"none", "thread"} :
              m_other_threads' = [m_other_threads EXCEPT ![helper_of(t)] = o]
       ELSE m_other_threads' = [m_other_threads EXCEPT ![helper_of(t)] = "thread"]
  /\ pc' = [pc EXCEPT ![t] = "scope_wait"]
  /\ UNCHANGED << m_continue, m_task_count, m_tasks, stack, cur, m, latch,
                  executed, notified, next_id, grp_size, grp_left, grp_first,
                  temp, scope_count, scope_frame >>

\* a scope exit without the at_exit guard: the helper's latch is left alone
scope_exit_skip(t, throws) ==
  /\ pc[t] = "scope_wait"
  /\ temp' = [temp EXCEPT ![helper_of(t)].owner = -1]
  /\ finish(t, throws)
  /\ UNCHANGED << m_continue, m_task_count, m_tasks, m, latch, executed,
                  notified, next_id, grp_size, grp_left, grp_first,
                  m_other_threads, scope_count, scope_frame >>

\* wait_for_scope is left, by return or by throw: at_exit runs sem->notify( )
scope_exit(t, throws) ==
  /\ pc[t] = "scope_wait"
  /\ temp' = [temp EXCEPT ![helper_of(t)] =
                 [@ EXCEPT !.owner = -1,
                           !.sem = latch_notify(@),
                           !.notifies = IF @ < 2 THEN @ + 1 ELSE @]]
  /\ finish(t, throws)
  /\ UNCHANGED << m_continue, m_task_count, m_tasks, m, latch, executed,
                  notified, next_id, grp_size, grp_left, grp_first,
                  m_other_threads, scope_count, scope_frame >>

\* func returns: w.wait( ) has seen the latch of the group at zero
scope_return(t) ==
  /\ latch_try_wait(latch.group)
  /\ scope_exit(t, FALSE)

\* func throws
scope_throw(t) == scope_exit(t, TRUE)

\* task_runner( id, wself, sem ) of a helper: while( !sem->try_wait( ) ),
\* return when m_continue is false; a helper that returns erases its entry
\* of m_other_threads
helper_runner(h) ==
  /\ pc[h] = "loop"
  /\ IF latch_try_wait(temp[h].sem) \/ ~m_continue
     THEN /\ pc' = [pc EXCEPT ![h] = "done"]
          /\ m_other_threads' = [m_other_threads EXCEPT ![h] = "none"]
     ELSE /\ pc' = [pc EXCEPT ![h] = "own"]
          /\ UNCHANGED m_other_threads
  /\ UNCHANGED << m_continue, m_task_count, m_tasks, stack, cur, m, latch,
                  executed, notified, next_id, grp_size, grp_left, grp_first,
                  temp, scope_count, scope_frame >>

\* what a thread does with tasks, permanent worker or helper
PoolStep(t) ==
  \/ receive(t)
  \/ receive_failed(t)
  \/ invoke(t)
  \/ at_exit_notify(t)
  \/ drain(t)
  \/ scope_enter(t)
  \/ scope_assign(t)
  \/ scope_return(t)

NextScope ==
  \/ create_task_group
  \/ schedule_task
  \/ client_send_task
  \/ add_scope_task
  \/ \E t \in Workers : task_runner(t) \/ PoolStep(t) \/ scope_throw(t)
  \/ \E h \in Helpers : helper_runner(h) \/ PoolStep(h) \/ scope_throw(h)

\* the running scheduler with callables that wait for the task group
SpecScope == Init /\ [][NextScope]_vars

\* Every thread keeps taking steps and a retried try-lock does not fail for
\* ever; the client finishes the call it is in; no callable has to throw.
FairnessScope ==
  /\ \A t \in Workers : WF_vars(task_runner(t) \/ PoolStep(t))
  /\ \A h \in Helpers : WF_vars(helper_runner(h) \/ PoolStep(h))
  /\ \A t \in Workers \cup Helpers : SF_vars(receive(t))
  /\ WF_vars(schedule_task)
  /\ SF_vars(client_send_task)

\* the first callable that calls wait_for
add_first_scope_task == scope_count = 0 /\ add_scope_task

\* one scope, its helper and the task group it waits for
NextOneScope ==
  \/ create_task_group
  \/ schedule_task
  \/ client_send_task
  \/ add_first_scope_task
  \/ \E t \in Workers : task_runner(t) \/ PoolStep(t) \/ scope_throw(t)
  \/ \E h \in Helpers : helper_runner(h) \/ PoolStep(h) \/ scope_throw(h)

FairScope == Init /\ [][NextOneScope]_vars /\ FairnessScope

\* one scope and its helper on a scheduler that stop( ) may be called on
NextStopScope ==
  \/ create_task_group
  \/ schedule_task
  \/ client_send_task
  \/ add_first_scope_task
  \/ clear_continue
  \/ \E t \in Workers : task_runner(t) \/ PoolStep(t) \/ scope_throw(t)
  \/ \E h \in Helpers : helper_runner(h) \/ PoolStep(h) \/ scope_throw(h)

SpecStopScope == Init /\ [][NextStopScope]_vars

\* am_i_in_pool( ) called on thread t: t owns the id of an entry of m_threads
\* or of an entry of m_other_threads that holds a thread
am_i_in_pool(t) ==
  \/ \E k \in 1 .. Len(m_threads) : m_threads[k] = t + 1
  \/ t \in Helpers /\ m_other_threads[t] = "thread"

\* thread t is a permanent worker start( ) recorded, or a helper with an
\* entry in the helper list
Registered(t) ==
  \/ t \in Workers /\ \E k \in 1 .. Len(m_threads) : m_threads[k] = t + 1
  \/ t \in Helpers /\ m_other_threads[t] # "none"

\* the threads that can make a call: the client, the workers inside
\* task_runner, the helpers created and not yet gone
Running == {t \in AllThreads : pc[t] \notin {"none", "done"}}

\* ------------------------------------------------------------ invoke_tasks
\* invoke_tasks( tasks... ) called by the client, a thread outside the pool:
\* ts.wait_for( create_task_group( tasks... ) ), that is the task group, then
\* wait_for_scope around the wait on the group's latch.
\* wait_for_scope entered by the client once the group is scheduled:
\* start_temp_task_runners( 1 ) up to create_thread
invoke_tasks_scope ==
  /\ pc[Client] = "idle"
  /\ grp_size > 0 /\ grp_left = 0
  /\ \A h \in Helpers : pc[h] = "none"
  /\ \E id \in Workers :
       temp' = [temp EXCEPT ![NumThreads + 1] =
                  [owner |-> Client, id |-> id, sem |-> 1, notifies |-> 0]]
  /\ m_other_threads' = [m_other_threads EXCEPT ![NumThreads + 1] = "nullopt"]
  /\ pc' = [pc EXCEPT ![Client] = "scope_assign", ![NumThreads + 1] = "loop"]
  /\ UNCHANGED << m_continue, m_task_count, m_tasks, stack, cur, m, latch,
                  executed, notified, next_id, grp_size, grp_left, grp_first,
                  scope_count, scope_frame >>

\* an invoke_tasks that does not wait for the group's latch
invoke_tasks_no_wait ==
  /\ pc[Client] = "scope_wait"
  /\ temp' = [temp EXCEPT ![helper_of(Client)] =
                 [@ EXCEPT !.owner = -1,
                           !.sem = latch_notify(@),
                           !.notifies = IF @ < 2 THEN @ + 1 ELSE @]]
  /\ pc' = [pc EXCEPT ![Client] = "returned"]
  /\ UNCHANGED << m_continue, m_task_count, m_tasks, stack, cur, m, latch,
                  executed, notified, next_id, grp_size, grp_left, grp_first,
                  m_other_threads, scope_count, scope_frame >>

\* waitable.wait( ) has seen the group's latch at zero; wait_for_scope's
\* at_exit notifies the helper's latch and invoke_tasks returns
invoke_tasks_return ==
  /\ pc[Client] = "scope_wait"
  /\ latch_try_wait(latch.group)
  /\ temp' = [temp EXCEPT ![helper_of(Client)] =
                 [@ EXCEPT !.owner = -1,
                           !.sem = latch_notify(@),
                           !.notifies = IF @ < 2 THEN @ + 1 ELSE @]]
  /\ pc' = [pc EXCEPT ![Client] = "returned"]
  /\ UNCHANGED << m_continue, m_task_count, m_tasks, stack, cur, m, latch,
                  executed, notified, next_id, grp_size, grp_left, grp_first,
                  m_other_threads, scope_count, scope_frame >>

\* what a pool thread does with the closures of the group
InvokeStep(t) ==
  \/ receive(t)
  \/ receive_failed(t)
  \/ invoke(t)
  \/ at_exit_notify(t)
  \/ drain(t)

NextInvoke ==
  \/ create_task_group
  \/ schedule_task
  \/ client_send_task
  \/ invoke_tasks_scope
  \/ scope_assign(Client)
  \/ invoke_tasks_return
  \/ \E t \in Workers : task_runner(t) \/ InvokeStep(t)
  \/ \E h \in Helpers : helper_runner(h) \/ InvokeStep(h)

\* invoke_tasks on the scheduler get_task_scheduler( ) returns
SpecInvoke == Init /\ [][NextInvoke]_vars

\* ------------------------------------------------- wait_for_task_from_pool
\* one thread inside wait_for_task_from_pool( id ) of a scheduler of
\* ScanThreads queues, while other threads fill and empty the queues

scan_frame ==
  << core, threw, buffer, counter, lifecycle, scopes, futures, latches, handles >>

\* the for loop's step taken backwards
scan_prev(k) == (k + ScanThreads - 1) % ScanThreads

\* m = ( m + 1 ) % m_num_threads
scan_next(k) == (k + 1) % ScanThreads

\* the queue the next receive( ) of the call reads
scan_queue == IF scan.at = "steal" THEN scan.m ELSE scan.id

\* another thread sends a task to queue k
scan_send(k) ==
  /\ scan.q[k] = 0
  /\ scan' = [scan EXCEPT !.q[k] = 1]
  /\ UNCHANGED scan_frame

\* another thread takes the task of queue k
scan_taken(k) ==
  /\ scan.q[k] = 1
  /\ scan' = [scan EXCEPT !.q[k] = 0]
  /\ UNCHANGED scan_frame

\* wait_for_task_from_pool( id ) is called
wait_for_task_from_pool(id) ==
  /\ scan.at \in {"none", "returned"}
  /\ scan' = [NoScan EXCEPT !.at = "own", !.id = id, !.q = scan.q]
  /\ UNCHANGED scan_frame

\* m_tasks[k].receive( tsk ) returned true: return tsk
scan_receive ==
  /\ scan.at \in {"own", "steal", "spin"}
  /\ scan.q[scan_queue] = 1
  /\ scan' = [scan EXCEPT !.at = "returned", !.got = scan_queue,
                          !.tried = Append(@, scan_queue),
                          !.q[scan_queue] = 0]
  /\ UNCHANGED scan_frame

\* m_tasks[k].receive( tsk ) returned false, on an empty queue or on a failed
\* try-lock: the next queue of the for loop, or the last loop on queue id
scan_receive_failed ==
  /\ scan.at \in {"own", "steal"}
  /\ scan' = [scan EXCEPT !.tried = Append(@, scan_queue),
                          !.m = scan_next(scan_queue),
                          !.at = IF scan_next(scan_queue) = scan.id
                                   THEN "spin" ELSE "steal"]
  /\ UNCHANGED scan_frame

\* a failed turn of while( !m_tasks[id].receive( tsk ) )
scan_spin ==
  /\ scan.at = "spin"
  /\ scan.spins < MaxSpins
  /\ scan' = [scan EXCEPT !.spins = @ + 1]
  /\ UNCHANGED scan_frame

NextScan ==
  \/ \E k \in 0 .. (ScanThreads - 1) :
       scan_send(k) \/ scan_taken(k) \/ wait_for_task_from_pool(k)
  \/ scan_receive
  \/ scan_receive_failed
  \/ scan_spin

SpecScan == Init /\ [][NextScan]_vars

\* ------------------------------------------ task_runner( id, hnd, sem )
\* the helper loop of the header: hnd is a weak handle to the scheduler's
\* member_data_t, owners the task_scheduler objects that own it, self the
\* optional< task_scheduler > of the current turn, sem the helper's latch

handle_frame ==
  << m_task_count, m_tasks, pc, stack, cur, m, latch, executed, notified,
     next_id, grp_size, grp_first, grp_left, threw, buffer, counter, lifecycle,
     scopes, futures, latches, scans >>

\* hnd.expired( ): no task_scheduler and no locked handle owns the data
expired == helper.owners = 0 /\ ~helper.self

\* start_temp_task_runners creates the thread; task_runner starts with
\* if( hnd.expired( ) ) return
helper_start ==
  /\ helper.at = "none"
  /\ helper' = [helper EXCEPT !.at = IF expired THEN "done" ELSE "test"]
  /\ UNCHANGED << m_continue, handle_frame >>

\* while( not sem->try_wait( ) )
helper_test ==
  /\ helper.at = "test"
  /\ helper' = [helper EXCEPT !.at = IF latch_try_wait(helper.sem) THEN "done" ELSE "lock"]
  /\ UNCHANGED << m_continue, handle_frame >>

\* auto self = hnd.lock( ): empty when the handle has expired
helper_lock ==
  /\ helper.at = "lock"
  /\ helper' = [helper EXCEPT !.at = "cond", !.self = ~expired]
  /\ UNCHANGED << m_continue, handle_frame >>

\* if( ...; not( self or self->m_data->m_continue ) ) return; else run_task:
\* with a scheduler, self is true and the else branch is taken whatever
\* m_continue is; without one, self->m_data reads an empty optional, after
\* which the thread returns, goes on to the else branch, or ends the program
helper_cond ==
  /\ helper.at = "cond"
  /\ IF helper.self
       THEN helper' = [helper EXCEPT !.at = "take"]
       ELSE \E o \in {"done", "take", "terminated"} :
              helper' = [helper EXCEPT !.at = o]
  /\ UNCHANGED << m_continue, handle_frame >>

\* run_task( self->wait_for_task_from_pool( id ) ): a task is taken and run,
\* then self is released at the end of the turn
helper_take ==
  /\ helper.at = "take"
  /\ helper.taken < MaxTaken
  /\ helper' = [helper EXCEPT !.at = "test", !.self = FALSE, !.taken = @ + 1]
  /\ UNCHANGED << m_continue, handle_frame >>

\* stop( ): m_continue = false
helper_stop ==
  /\ helper.owners > 0
  /\ m_continue
  /\ m_continue' = FALSE
  /\ UNCHANGED << helper, handle_frame >>

\* the last task_scheduler that owns the data is destroyed
helper_release ==
  /\ helper.owners > 0
  /\ helper' = [helper EXCEPT !.owners = 0]
  /\ UNCHANGED << m_continue, handle_frame >>

\* wait_for_scope's at_exit: sem->notify( )
helper_notify ==
  /\ helper.sem > 0
  /\ helper' = [helper EXCEPT !.sem = latch_notify(@)]
  /\ UNCHANGED << m_continue, handle_frame >>

NextHelper ==
  \/ helper_start
  \/ helper_test
  \/ helper_lock
  \/ helper_cond
  \/ helper_take
  \/ helper_stop
  \/ helper_release
  \/ helper_notify

SpecHelper == Init /\ [][NextHelper]_vars

\* ------------------------------------------------------- daw::shared_latch
\* one latch and the threads that notify it, each notify under the latch's
\* mutex

latch_frame ==
  << core, threw, buffer, counter, lifecycle, scopes, futures, scans, handles >>

\* shared_latch( count ): construction with a count >= 0
shared_latch ==
  /\ ~sem.made
  /\ \E n \in 0 .. MaxLatch :
       sem' = [made |-> TRUE, count |-> n, initial |-> n, mutex |-> 0]
  /\ UNCHANGED << notifier, latch_frame >>

\* notify( ): the user takes the latch's mutex
notify_lock(u) ==
  /\ sem.made
  /\ notifier[u].at = "idle"
  /\ notifier[u].calls < MaxNotify
  /\ sem.mutex = 0
  /\ sem' = [sem EXCEPT !.mutex = u]
  /\ notifier' = [notifier EXCEPT ![u].at = "locked"]
  /\ UNCHANGED latch_frame

\* notify( ): the decrement, then the mutex is released
notify_decrement(u) ==
  /\ notifier[u].at = "locked"
  /\ sem' = [sem EXCEPT !.count = latch_notify(@), !.mutex = 0]
  /\ notifier' = [notifier EXCEPT ![u] = [at |-> "idle", calls |-> @.calls + 1]]
  /\ UNCHANGED latch_frame

NextLatch ==
  \/ shared_latch
  \/ \E u \in 1 .. NumUsers : notify_lock(u) \/ notify_decrement(u)

SpecLatch == Init /\ [][NextLatch]_vars

\* -------------------------------------------------------- future_result_t
\* future_result.h and function_stream.h: the cell, next( ), the stream

Inputs == 1 .. MaxInput

\* constexpr int a( int x ), b, c: the stages of the stream
a(x) == x * 2

b(x) == x * 3

c(x) == x * 4

\* one decimal digit as std::to_string writes it
Digit(d) ==
  CASE d = 0 -> "0" [] d = 1 -> "1" [] d = 2 -> "2" [] d = 3 -> "3"
    [] d = 4 -> "4" [] d = 5 -> "5" [] d = 6 -> "6" [] d = 7 -> "7"
    [] d = 8 -> "8" [] d = 9 -> "9"

RECURSIVE to_string(_)
\* std::to_string( int ): the decimal digits, a minus sign first when negative
to_string(n) ==
  IF n < 0 THEN "-" \o to_string(0 - n)
  ELSE IF n < 10 THEN Digit(n)
  ELSE to_string(n \div 10) \o Digit(n % 10)

\* std::string blah( int i )
blah(i) == to_string(i)

\* the callables given to next( ): the stages, i + 1, blah, and one that throws
Stages == {"a", "b", "c", "inc", "blah", "throws"}

\* the callables given to make_future_result: return 2, and one that throws
Makers == {"two", "throws"}

\* whether the callable's return type is int, which every stage takes; blah
\* returns a std::string
returns_int(g) == g # "blah"

\* the callable g of future i invoked with x: the value it returns, or the
\* exception it throws
call(g, x, i) ==
  CASE g = "a" -> IntValue(a(x))
    [] g = "b" -> IntValue(b(x))
    [] g = "c" -> IntValue(c(x))
    [] g = "inc" -> IntValue(x + 1)
    [] g = "blah" -> StringValue(blah(x))
    [] g = "two" -> IntValue(2)
    [] g = "throws" -> Exception(i)

\* the futures made so far
Made == {i \in Futs : fut[i].state # "none"}

\* a fresh pending future that continues p with the callable g
NewFuture(p, g) == [NoFuture EXCEPT !.state = "pending", !.from = p, !.fn = g]

\* the continuations a resolving future hands to the scheduler, last first
continuations_reversed(i) ==
  [k \in 1 .. Len(fut[i].conts) |-> fut[i].conts[Len(fut[i].conts) + 1 - k]]

\* the continuations a resolving future hands to the scheduler, in the order
\* of its list
continuations(i) == fut[i].conts

\* the elements of a sequence
Range(q) == {q[k] : k \in 1 .. Len(q)}

\* a set_value that stores into a resolved future as well
set_value_again(i, v, n) ==
  [fut EXCEPT ![i] =
     [@ EXCEPT !.state = IF v.kind = "exception" THEN "error" ELSE "value",
               !.value = v,
               !.sem = latch_notify(@),
               !.scheduled = @ \o continuations(i),
               !.conts = << >>,
               !.invoked = @ + n,
               !.sets = IF @ < 2 THEN @ + 1 ELSE @]]

\* set_value( r ) / set_exception( e ) on future i, n more invocations of its
\* callable counted: on a pending future store the result, notify the latch,
\* drain the continuation list to the scheduler; a resolved future keeps
\* what it holds
set_value(i, v, n) ==
  IF fut[i].state = "pending"
    THEN [fut EXCEPT ![i] =
            [@ EXCEPT !.state = IF v.kind = "exception" THEN "error" ELSE "value",
                      !.value = v,
                      !.sem = latch_notify(@),
                      !.scheduled = @ \o continuations(i),
                      !.conts = << >>,
                      !.invoked = @ + n,
                      !.sets = IF @ < 2 THEN @ + 1 ELSE @]]
    ELSE [fut EXCEPT ![i] = [@ EXCEPT !.invoked = @ + n,
                                      !.sets = IF @ < 2 THEN @ + 1 ELSE @]]

\* the first future's value handed to every stage
argument_first(i) == fut[1].value.n

\* what the continuation of future i hands to its callable: the value stored
\* in the future it continues
argument(i) == fut[fut[i].from].value.n

future_frame ==
  << core, threw, buffer, counter, lifecycle, scopes, latches, scans, handles >>

\* function_stream::operator( )( x ): F0 := resolved_future( x )
resolved_future(x) ==
  /\ Made = {}
  /\ fut' = [fut EXCEPT ![1] =
               [NewFuture(0, "resolved") EXCEPT !.state = "value",
                                                !.value = IntValue(x),
                                                !.sem = 0, !.arg = x]]
  /\ UNCHANGED << ready, got, future_frame >>

\* make_future_result( f ): a pending future and a task that fills it from f
make_future_result(f) ==
  /\ Made = {}
  /\ fut' = [fut EXCEPT ![1] = NewFuture(0, f)]
  /\ ready' = ready \cup {1}
  /\ UNCHANGED << got, future_frame >>

\* p.next( g ): a new future for g's result; g is registered on p while p is
\* pending and scheduled at once when p is resolved
next(p, g) ==
  /\ p \in Made
  /\ returns_int(fut[p].fn)
  /\ Cardinality(Made) < MaxFut
  /\ LET i == Cardinality(Made) + 1
     IN IF fut[p].state = "pending"
          THEN /\ fut' = [fut EXCEPT ![i] = NewFuture(p, g),
                                     ![p] = [@ EXCEPT !.conts = Append(@, i),
                                                      !.registered = Append(@, i)]]
               /\ UNCHANGED ready
          ELSE /\ fut' = [fut EXCEPT ![i] = [NewFuture(p, g) EXCEPT !.late = TRUE],
                                     ![p] = [@ EXCEPT !.registered = Append(@, i),
                                                      !.scheduled = Append(@, i)]]
               /\ ready' = ready \cup {i}
  /\ UNCHANGED << got, future_frame >>

\* the task of make_future_result runs: from_code( f ) stores f's result or
\* the exception f threw
from_code(i) ==
  /\ i \in ready
  /\ fut[i].from = 0
  /\ fut' = set_value(i, call(fut[i].fn, 0, i), 1)
  /\ ready' = (ready \ {i}) \cup Range(continuations(i))
  /\ UNCHANGED << got, future_frame >>

\* the task of a continuation runs and invokes g even on a stored exception
continue_invoking(i) ==
  /\ i \in ready
  /\ fut[i].from # 0
  /\ fut[fut[i].from].state \in {"value", "error"}
  /\ fut' = set_value(i, call(fut[i].fn, argument(i), i), 1)
  /\ ready' = (ready \ {i}) \cup Range(continuations(i))
  /\ UNCHANGED << got, future_frame >>

\* the task of a continuation runs: an exception in the predecessor goes to the
\* successor's slot and g is not invoked; else g is invoked with the value
continue(i) ==
  /\ i \in ready
  /\ fut[i].from # 0
  /\ fut[fut[i].from].state \in {"value", "error"}
  /\ fut' = IF fut[fut[i].from].state = "error"
              THEN set_value(i, fut[fut[i].from].value, 0)
              ELSE set_value(i, call(fut[i].fn, argument(i), i), 1)
  /\ ready' = (ready \ {i}) \cup Range(continuations(i))
  /\ UNCHANGED << got, future_frame >>

\* get( ) on future i, past its wait( ): the value, or the stored exception
\* thrown again
get(i) ==
  /\ i \in Made
  /\ latch_try_wait(fut[i].sem)
  /\ got[i].at = "none"
  /\ got' = [got EXCEPT ![i] =
               [at |-> IF fut[i].state = "error" THEN "thrown" ELSE "returned",
                value |-> fut[i].value]]
  /\ UNCHANGED << fut, ready, future_frame >>

NextFuture ==
  \/ \E x \in Inputs : resolved_future(x)
  \/ \E f \in Makers : make_future_result(f)
  \/ \E p \in Futs, g \in Stages : next(p, g)
  \/ \E i \in Futs : from_code(i) \/ continue(i) \/ get(i)

SpecFuture == Init /\ [][NextFuture]_vars

\* what a holder of future i can pass to set_value / set_exception: a result
\* of the future's type, or an exception
Results(i) ==
  {IF returns_int(fut[i].fn) THEN IntValue(MaxInput)
                             ELSE StringValue(to_string(MaxInput)),
   Exception(0)}

\* the callables given to next( ) where set calls are made as well
SetStages == {"inc", "throws"}

\* the set calls made so far, by tasks and by holders
SetCalls ==
  Cardinality({i \in Futs : fut[i].sets >= 1}) + Cardinality({i \in Futs : fut[i].sets = 2})

\* a holder of future i calls set_value( r ) or set_exception( e ) on it
set_value_call(i) ==
  /\ i \in Made
  /\ fut[i].sets < 2
  /\ SetCalls < MaxSets
  /\ \E v \in Results(i) : fut' = set_value(i, v, 0)
  /\ ready' = ready \cup Range(continuations(i))
  /\ UNCHANGED << got, future_frame >>

\* the futures with their tasks and with direct set_value / set_exception calls
NextSet ==
  \/ \E x \in Inputs : resolved_future(x)
  \/ \E f \in Makers : make_future_result(f)
  \/ \E p \in Futs, g \in SetStages : next(p, g)
  \/ \E i \in Futs : from_code(i) \/ continue(i) \/ set_value_call(i)

SpecSet == Init /\ [][NextSet]_vars

\* ---------------------------------------------------------------- claims
\* callable i was submitted by schedule_task (it belongs to the task group)
IsSched(i) ==
  grp_size > 0 /\ i >= grp_first /\ i < grp_first + grp_size /\ i < next_id

\* callable i was submitted by add_task( task, latch )
IsGated(i) == i < next_id /\ ~IsSched(i)

\* the tasks queue q holds
InQueue(q) == {m_tasks[q][k] : k \in 1 .. Len(m_tasks[q])}

\* callable i sits in a queue or in the hands of a thread
Held(i) ==
  \/ \E q \in Workers : \E tsk \in InQueue(q) : tsk.id = i
  \/ \E t \in Threads : cur[t].id = i

\* a task that went through run_task's re-submission carries a second wrapper
Requeued(tsk) == Len(tsk.wraps) >= 2

\* the completion notifies counted so far, over callables 1 .. n
RECURSIVE NotifiedUpTo(_)
NotifiedUpTo(n) == IF n = 0 THEN 0 ELSE notified[n] + NotifiedUpTo(n - 1)

\* a step of the pool, or of the call the client is in
Progress ==
  \/ \E t \in Workers : WorkerStep(t)
  \/ client_send_task
  \/ schedule_task
  \/ stop_send
  \/ stop_join

\* C1: whatever the interleaving of workers and drain loops popping, stealing
\* and re-submitting, the callable of every submitted task is invoked at most
\* once.
C1_InvokedAtMostOnce == \A i \in 1 .. MaxTasks : executed[i] <= 1

\* every callable has run, inside nested drain loops
C1_Witness ==
  /\ \A i \in 1 .. MaxTasks : executed[i] = 1
  /\ \E t \in Workers : Len(stack[t]) >= 3

\* C3: the latch of a callable scheduled with schedule_task is notified at
\* most once, never before the callable was invoked, and once the callable
\* has been invoked the notify has run or the worker is at the closure's
\* scope exit about to run it, after a return and after a throw alike; each
\* notify lowers the latch by one.
C3_NotifiedOnceAfterCallable ==
  /\ \A i \in 1 .. MaxTasks :
       IsSched(i) =>
         /\ notified[i] <= 1
         /\ notified[i] = 1 => executed[i] = 1
         /\ (executed[i] = 1 /\ notified[i] = 0) =>
              \E t \in Workers : /\ pc[t] \in {"notify", "notify_throw"}
                                 /\ cur[t].id = i
  /\ grp_size > 0 => latch.group + NotifiedUpTo(MaxTasks) = grp_size

\* a group of two whose callables both ran and both notified: the latch is zero
C3_Witness ==
  /\ grp_size = 2
  /\ \A i \in 1 .. MaxTasks : IsSched(i) => executed[i] = 1 /\ notified[i] = 1
  /\ next_id >= grp_first + grp_size
  /\ latch.group = 0

\* C2: once create_task_group has scheduled all its callables, the group
\* latch eventually reaches zero, unless the scheduler is stopped first.
C2_GroupLatchReachesZero ==
  (grp_size > 0 /\ grp_left = 0) ~> (latch.group = 0 \/ ~m_continue)

\* the group is scheduled, its latch is above zero, and no thread of the pool
\* can take a step: the workers spin in send_task or on their own queue
C2_Witness ==
  /\ m_continue
  /\ grp_size > 0 /\ grp_left = 0 /\ latch.group > 0
  /\ pc[Client] = "idle"
  /\ ~ENABLED <<Progress>>_vars

\* C5: stop( block = true ) called from outside the pool eventually returns.
C5_StopReturns == (pc[Client] = "stop_send") ~> (pc[Client] = "stopped")

\* every sentinel was sent and stop is joining a worker that spins on its
\* empty queue for good: its sentinel was stolen by a worker that has exited
C5_Witness ==
  /\ pc[Client] = "stop_join"
  /\ \E w \in Workers : pc[w] = "spin" /\ empty(m_tasks[w])
  /\ ~ENABLED <<Progress>>_vars

\* C9: callable 1, re-queued because its latch was not zero, is eventually
\* invoked once the latch is zero, unless the scheduler is stopped first.
C9_RequeuedEventuallyRuns ==
  (/\ latch.gate = 0
   /\ \E q \in Workers : \E tsk \in InQueue(q) : tsk.id = 1 /\ Requeued(tsk))
    ~> (executed[1] = 1 \/ ~m_continue)

\* the latch is zero, a re-queued task waits in a full queue, and every worker
\* spins: in send_task on that queue, or on its own empty queue
C9_Witness ==
  /\ m_continue
  /\ latch.gate = 0
  /\ pc[Client] = "idle"
  /\ \E q \in Workers : \E tsk \in InQueue(q) :
       tsk.kind = "gated" /\ Requeued(tsk) /\ executed[tsk.id] = 0
  /\ ~ENABLED <<Progress>>_vars

C7_LatchTasksSettledAtStop ==
  pc[Client] = "stopped" =>
    \A i \in 1 .. MaxTasks : IsSched(i) => (executed[i] = 1 \/ notified[i] = 1)

\* stop has returned while a scheduled callable still sits in a queue, never
\* invoked, its latch above zero
C7_Witness ==
  /\ pc[Client] = "stopped"
  /\ latch.group > 0
  /\ \E q \in Workers : \E tsk \in InQueue(q) :
       tsk.kind = "sched" /\ executed[tsk.id] = 0 /\ notified[tsk.id] = 0

\* C8: a thread whose popped task has a latch that is not zero does not invoke
\* the callable: it takes the queue index from the round-robin counter and
\* pushes the task to the back of that queue.
C8_NotReadyResubmitted ==
  [][\A t \in Workers :
       /\ (pc[t] = "run" /\ latch.gate > 0 /\ pc'[t] # "run") =>
            (pc'[t] = "getid" /\ cur'[t] = cur[t] /\ executed' = executed)
       /\ (pc[t] = "getid" /\ pc'[t] # "getid") =>
            /\ pc'[t] = "send"
            /\ m'[t] = m_task_count % NumThreads
            /\ m_task_count' = (m_task_count + 1) % NumThreads
            /\ cur'[t].id = cur[t].id
            /\ executed' = executed
       /\ (pc[t] = "send" /\ pc'[t] # "send") =>
            /\ m_tasks'[m[t]] = Append(m_tasks[m[t]], cur[t])
            /\ executed' = executed]_vars

\* a task that was popped with its latch above zero is back in a queue with
\* its second wrapper, not invoked
C8_Witness ==
  /\ latch.gate > 0
  /\ \E q \in Workers : \E tsk \in InQueue(q) :
       tsk.kind = "gated" /\ Requeued(tsk) /\ executed[tsk.id] = 0

C4_RejectedNotifiedOnce ==
  /\ \A i \in 1 .. MaxTasks :
       IsSched(i) =>
         /\ notified[i] <= 1
         /\ (executed[i] = 0 /\ ~Held(i)) => notified[i] = 1
  /\ grp_size > 0 => latch.group + NotifiedUpTo(MaxTasks) = grp_size

\* a group of two on a stopped scheduler: one callable was rejected and
\* notified, the other was enqueued, the latch stands at one
C4_Witness ==
  /\ ~m_continue
  /\ pc[Client] = "idle"
  /\ grp_size = 2 /\ grp_left = 0
  /\ \E i \in 1 .. MaxTasks :
       IsSched(i) /\ executed[i] = 0 /\ ~Held(i) /\ notified[i] = 1
  /\ latch.group = 1

\* C14: an exception thrown by a callable is caught in run_task and does not
\* end the worker: the step in which the exception leaves the callable and
\* its wrappers takes the worker back to the loop it was in (task_runner's
\* loop or the enclosing drain loop), from where it takes later tasks.
C14_ThrowReturnsToLoop ==
  [][\A t \in Workers :
       ( /\ \/ pc[t] = "notify_throw"
            \/ pc[t] = "call" /\ cur[t].kind # "sched" /\ threw'[t] /\ ~threw[t]
         /\ pc'[t] # pc[t] )
         => /\ pc'[t] = ReturnPc(t)
            /\ pc'[t] \in {"loop", "drain"}
            /\ stack'[t] = stack[t]]_vars

\* a worker that caught an exception is about to invoke a later callable
C14_Witness ==
  \E t \in Workers :
    /\ threw[t]
    /\ pc[t] = "call"
    /\ cur[t].kind # "sentinel"
    /\ executed[cur[t].id] = 0

\* C17: for one queue, the sequence of values returned by successful pops
\* is a prefix of the sequence of values stored by successful pushes, and
\* what was pushed and not yet popped is in the ring, in order: nothing is
\* lost, duplicated or reordered.
C17_PopsArePrefixOfPushes ==
  /\ Len(popped) <= Len(pushed)
  /\ popped = SubSeq(pushed, 1, Len(popped))
  /\ ring_contents(m_data) = SubSeq(pushed, Len(popped) + 1, Len(pushed))

\* more values than the ring has slots went through it, and it is full again
C17_Witness ==
  /\ Len(popped) > QueueSize
  /\ ring_full(m_data)
  /\ m_data.m_front # 0

C15_DistinctCounterValues ==
  /\ \A i \in 1 .. Len(issued) : issued[i].id = issued[i].c % NumThreads
  /\ \A i, j \in 1 .. Len(issued) : i # j => issued[i].c # issued[j].c
  /\ \A t \in Threads : \A i \in 1 .. Len(issued) : tc[t] # issued[i].c
  /\ \A t, u \in Threads : (t # u /\ tc[t] >= 0) => tc[t] # tc[u]
  /\ Drawn = 0 .. (m_task_count - 1)
  /\ \A i, j \in 1 .. Len(issued) :
       (issued[i].c < issued[j].c /\ issued[j].c - issued[i].c < NumThreads)
         => issued[i].id # issued[j].id

\* concurrent calls that returned out of order: more than N values were
\* drawn, the second call to return drew its value before the first
C15_Witness ==
  /\ Len(issued) > NumThreads
  /\ issued[1].c > issued[2].c
  /\ \E t \in Threads : tc[t] >= 0

\* C18: once start( ) has returned, on a fresh scheduler or after a stop( )
\* (blocking or not), exactly N permanent workers are live, each recorded in
\* the thread map with its own queue index, the indices being 0 .. N - 1.
C18_ExactlyNWorkersAfterStart ==
  (life.at = "idle" /\ LastCall = "start" /\ CallBefore # "start")
    => /\ Cardinality(Live) = NumThreads
       /\ \A i \in Live : << i, thread[i].n >> \in m_thread_map
       /\ {thread[i].n : i \in Live} = Workers

\* start( ) has returned after a stop( ), and a worker of the first start( )
\* is still running
C18_Witness ==
  /\ life.at = "idle"
  /\ life.calls = << "start", "stop", "start" >>
  /\ Cardinality(Live) > NumThreads

\* C19: start and stop are idempotent. When start( ) returns from a call made
\* on a running scheduler the workers are the ones that were there before
\* the call and the flag is set; when stop( ) returns from a call made on a
\* stopped scheduler the flag is clear, no worker was added and no queue
\* holds more tasks than before the call.
C19_RepeatedCallChangesNothing ==
  (life.at = "idle" /\ LastCall # "none" /\ LastCall = CallBefore)
    => /\ LastCall = "start" => (m_continue /\ Live = life.snap.live)
       /\ LastCall = "stop" =>
            /\ ~m_continue
            /\ Live \subseteq life.snap.live
            /\ \A q \in Workers : Len(m_tasks[q]) <= Len(life.snap.tasks[q])

\* start( ) was called twice in a row: 2 N workers are live and owned
C19_Witness ==
  /\ life.at = "idle"
  /\ life.calls = << "start", "start" >>
  /\ Cardinality(Live) = 2 * NumThreads
  /\ Len(m_threads) = 2 * NumThreads

\* C12: wait_for_scope notifies the latch of the helper it started exactly
\* once, when the scope is left by return or by throw: while the thread is in
\* the scope the latch stands at 1 with no notify, after the scope it stands
\* at 0 with one notify.
C12_HelperLatchNotifiedOnce ==
  \A h \in Helpers :
    pc[h] # "none" =>
      IF temp[h].owner # -1
      THEN temp[h].sem = 1 /\ temp[h].notifies = 0
      ELSE temp[h].sem = 0 /\ temp[h].notifies = 1

\* a scope left by a throw while the group latch was not at zero, its helper
\* still running
C12_Witness ==
  \E h \in Helpers :
    /\ temp[h].owner = -1
    /\ temp[h].notifies = 1
    /\ pc[h] \notin {"none", "done"}
    /\ latch.group > 0

\* C13: a helper thread whose latch is at zero eventually leaves task_runner
\* and erases its entry of the helper list, whether or not another task is
\* submitted after the notify. Stated for the first helper created.
C13_HelperEventuallyExits ==
  (pc[NumThreads + 1] # "none" /\ temp[NumThreads + 1].sem = 0)
    ~> (pc[NumThreads + 1] = "done" /\ m_other_threads[NumThreads + 1] = "none")

\* the scope is over, the latch is at zero, every queue is empty and the
\* helper is in the last loop of wait_for_task_from_pool
C13_Witness ==
  /\ temp[NumThreads + 1].sem = 0
  /\ temp[NumThreads + 1].notifies = 1
  /\ pc[NumThreads + 1] = "spin"
  /\ m_other_threads[NumThreads + 1] = "thread"
  /\ \A q \in Workers : empty(m_tasks[q])
  /\ pc[Client] = "idle"

\* C11: a thread of the pool is inside wait_for_scope( f ), f waiting for the
\* latch of a task group whose closures are all queued on the same
\* scheduler: the scope eventually completes. Stated for the scope of the
\* first helper created.
C11_ScopeEventuallyCompletes ==
  (/\ temp[NumThreads + 1].owner # -1
   /\ grp_size > 0
   /\ grp_left = 0)
    ~> (temp[NumThreads + 1].owner = -1)

\* every permanent worker is inside a scope or in the last loop of
\* wait_for_task_from_pool, so is every helper, a closure of the group is
\* queued and no thread of the pool can take a step
C11_Witness ==
  /\ temp[NumThreads + 1].owner # -1
  /\ grp_size > 0 /\ grp_left = 0
  /\ latch.group > 0
  /\ \E q \in Workers : \E tsk \in InQueue(q) : tsk.kind = "sched"
  /\ \A t \in Workers : pc[t] \in {"scope_wait", "spin"}
  /\ \A h \in Helpers : pc[h] \in {"none", "spin"}
  /\ \A t \in Workers \cup Helpers : pc[t] = "spin" => empty(m_tasks[own_queue(t)])

\* C20: am_i_in_pool( ) called on a thread returns true if and only if the
\* thread is a registered permanent worker or a registered helper worker of
\* the scheduler.
C20_InPoolIffRegistered ==
  \A t \in Running : am_i_in_pool(t) <=> Registered(t)

\* a helper is about to invoke a callable while the thread that created it
\* has not yet stored the thread in the helper's list entry
C20_Witness ==
  \E h \in Helpers :
    /\ pc[h] = "call"
    /\ m_other_threads[h] = "nullopt"
    /\ ~am_i_in_pool(h)

\* C21: wait_for_scope starts a helper thread only when the thread that
\* calls it is one of the scheduler's own threads: every step that starts a
\* helper is taken for a caller for which am_i_in_pool( ) holds.
C21_HelperOnlyForPoolThread ==
  [][\A h \in Helpers :
       (pc[h] = "none" /\ pc'[h] # "none") => am_i_in_pool(temp'[h].owner)]_vars

\* the client, a thread outside the pool, is inside wait_for_scope and the
\* helper started for it is running
C21_Witness ==
  /\ pc[Client] = "scope_wait"
  /\ ~am_i_in_pool(Client)
  /\ \E h \in Helpers : temp[h].owner = Client /\ pc[h] \notin {"none", "done"}

C23_RingInvariants ==
  m_mutex = 0 =>
    /\ (ring_occupied(m_data) = {}) <=> ring_empty(m_data)
    /\ ring_empty(m_data) <=> (m_data.m_front = m_data.m_back /\ ~m_data.m_is_full)
    /\ (ring_occupied(m_data) = 0 .. (QueueSize - 1)) <=> ring_full(m_data)
    /\ ring_full(m_data) <=> (m_data.m_front = m_data.m_back /\ m_data.m_is_full)
    /\ ring_occupied(m_data) = ring_span(m_data)
    /\ \A i \in ring_occupied(m_data) :
         \E k \in 1 .. Len(pushed) : m_data.m_values[i] = pushed[k]
    /\ \A i, j \in ring_occupied(m_data) :
         i # j => m_data.m_values[i] # m_data.m_values[j]
    /\ Cardinality(ring_occupied(m_data)) = Len(pushed) - Len(popped)
    /\ Cardinality(ring_occupied(m_data)) <= QueueSize

\* the ring went from full to empty and is full again, m_front = m_back away
\* from slot 0, the mutex free
C23_Witness ==
  /\ m_mutex = 0
  /\ ring_full(m_data)
  /\ m_data.m_front = QueueSize - 1
  /\ Len(popped) >= QueueSize

\* C24: try_push_back and try_pop_front never block: a thread that is not
\* inside another call can always complete either of them, also while the
\* mutex is held; and a try_push_back that returns failed or a try_pop_front
\* that returns nothing leaves the slots, m_front, m_back, m_is_full and the
\* mutex as they were, with nothing stored and nothing handed out.
C24_TryLeavesQueueAlone ==
  /\ [](\A u \in Users : user[u].at = "idle" =>
          /\ ENABLED ring_try_pop_front(u)
          /\ (Len(pushed) < MaxPush => ENABLED ring_try_push_back(u)))
  /\ [][\A u \in Users :
          (/\ user[u].at = "idle" /\ user'[u].at = "idle"
           /\ user'[u] # user[u]
           /\ user'[u].result \in {"failed", "nothing"})
            => UNCHANGED << m_data, m_mutex, pushed, popped >>]_vars

\* a try_push_back has failed on a ring that is not full, and a try_pop_front
\* on a ring that is not empty: another thread owns the mutex
C24_Witness ==
  /\ m_mutex # 0
  /\ ~ring_full(m_data) /\ ~ring_empty(m_data)
  /\ \E u \in Users : u # m_mutex /\ user[u].at = "idle"
                      /\ user[u].result \in {"failed", "nothing"}

\* C27: pop_front( can_continue, timeout ) returns a task only if the ring
\* is not empty and can_continue( ) holds at its last check, the task being
\* the one at m_front; when can_continue( ) is false at the wakeup, the timeout
\* or the last check it returns the empty pointer, and a call that returns the
\* empty pointer leaves the ring unchanged.
C27_PopHonoursKeepGoing ==
  [][\A u \in Users :
       (user[u].at \in {"pop_wait", "pop_check"} /\ user'[u].at = "idle")
         => /\ user'[u].result \in {"value", "nothing"}
            /\ user'[u].result = "value" =>
                 /\ ~ring_empty(m_data) /\ m_continue
                 /\ popped' = Append(popped, m_data.m_values[m_data.m_front])
                 /\ m_data' = ring_pop(m_data)
            /\ user'[u].result = "nothing" =>
                 UNCHANGED << m_data, pushed, popped >>
            /\ ~m_continue => user'[u].result = "nothing"]_vars

\* a pop_front( can_continue, timeout ) owns the lock of a ring that is not
\* empty and can_continue( ) has become false before its last check
C27_Witness ==
  \E u \in Users :
    /\ user[u].at = "pop_check"
    /\ m_mutex = u
    /\ ~ring_empty(m_data)
    /\ ~m_continue

\* C25: a successful try_pop_front clears m_is_full and notifies m_not_full,
\* so a thread blocked in push_back on a full ring eventually stores its value
\* once a try_pop_front has taken a value out (unless can_continue( ) becomes
\* false).
C25_BlockedPushStoresAfterTryPop ==
  (user[1].at = "push_wait" /\ ~ring_full(m_data) /\ m_continue)
    ~> ((user[1].at = "idle" /\ user[1].result = "true") \/ ~m_continue)

\* user 1 is blocked in push_back's wait, user 2 has taken a value out with
\* try_pop_front, the ring has a free slot, and no thread has a step to take
C25_Witness ==
  /\ user[1].at = "push_wait"
  /\ user[2].at = "idle" /\ user[2].result = "value"
  /\ m_mutex = 0
  /\ ~ring_full(m_data)
  /\ m_continue
  /\ ~ENABLED <<push_back_woken(1) \/ push_back_check(1)>>_vars

\* C26: a push_back blocked on a full ring returns false, without storing its
\* value, once can_continue( ) is false: it does not stay blocked.
C26_BlockedPushIsAbandoned ==
  (user[1].at \in {"push_wait", "push_woken"} /\ ~m_continue)
    ~> (user[1].at = "idle" /\ user[1].result = "false")

\* user 1 is in push_back's wait on a full ring and can_continue( ) is false
C26_Witness ==
  /\ user[1].at = "push_wait"
  /\ ring_full(m_data)
  /\ ~m_continue

RECURSIVE composed(_)
\* what the stages on the way to future i make of the first future's input:
\* fk( ... f1( x ) ... ), or the exception of the first stage that throws
composed(i) ==
  IF fut[i].from = 0
    THEN IF fut[i].fn = "resolved" THEN IntValue(fut[i].arg)
         ELSE call(fut[i].fn, 0, i)
    ELSE LET v == composed(fut[i].from)
         IN IF v.kind = "exception" THEN v ELSE call(fut[i].fn, v.n, i)

\* C28: a stream of stages f1 .. fk called with x, and a chain of next( ) calls
\* on a future, give a future whose value is fk( ... f1( x ) ... ): a resolved
\* future holds the composed value and get( ) returns it (a, b, c on 3: 72)
C28_ChainYieldsComposedValue ==
  \A i \in Made :
    composed(i).kind # "exception" =>
      /\ fut[i].state # "pending" => fut[i].state = "value" /\ fut[i].value = composed(i)
      /\ got[i].at # "none" => got[i] = [at |-> "returned", value |-> composed(i)]

\* the stream a | b | c called with 3 has returned 72 from get( )
C28_Witness ==
  /\ fut[1].fn = "resolved" /\ fut[1].arg = 3
  /\ fut[2].from = 1 /\ fut[2].fn = "a"
  /\ fut[3].from = 2 /\ fut[3].fn = "b"
  /\ fut[4].from = 3 /\ fut[4].fn = "c"
  /\ got[4] = [at |-> "returned", value |-> IntValue(72)]

C30_ErrorSkipsSuccessorCallable ==
  /\ \A i \in Made :
       (fut[i].from # 0 /\ fut[fut[i].from].state = "error") =>
         /\ fut[i].invoked = 0
         /\ \/ fut[i].state = "pending" /\ i \in ready
            \/ fut[i].state = "error" /\ fut[i].value = fut[fut[i].from].value
  /\ \A i \in Made :
       (fut[i].state = "error" /\ got[i].at # "none") =>
         got[i] = [at |-> "thrown", value |-> fut[i].value]

\* the first future's callable threw, the successor's callable a was not
\* invoked, and get( ) on the successor has thrown the first future's exception
C30_Witness ==
  /\ fut[1].state = "error"
  /\ fut[2].from = 1 /\ fut[2].fn = "a"
  /\ fut[2].state = "error" /\ fut[2].invoked = 0
  /\ got[2] = [at |-> "thrown", value |-> Exception(1)]
  /\ got[1].at = "thrown"

RECURSIVE NotifiesOf(_)
\* the notify calls users 1 .. n of the latch have finished
NotifiesOf(n) == IF n = 0 THEN 0 ELSE notifier[n].calls + NotifiesOf(n - 1)

\* the notify calls every user of the latch has finished
Notifies == NotifiesOf(NumUsers)

\* C32: a latch's counter never increases and never goes below zero: a notify
\* takes one off a positive counter and leaves a zero counter at zero, with
\* any number of threads notifying at once; the counter is the count it was
\* made with less the finished notifies, or zero
C32_LatchMonotone ==
  /\ [](sem.count >= 0)
  /\ [](sem.made =>
          sem.count = IF sem.initial > Notifies THEN sem.initial - Notifies ELSE 0)
  /\ [][sem.made =>
          /\ sem'.count <= sem.count
          /\ \A u \in 1 .. NumUsers :
               notifier'[u].calls # notifier[u].calls =>
                 sem'.count = IF sem.count > 0 THEN sem.count - 1 ELSE 0]_vars

\* both users have notified a latch of 2 more often than its count, and one
\* is inside another notify while the counter is zero
C32_Witness ==
  /\ sem.initial = 2 /\ sem.count = 0
  /\ notifier[1].calls >= 1 /\ notifier[2].calls >= 1
  /\ Notifies > 2
  /\ notifier[1].at = "locked"

\* C33: wait_for_task_from_pool( id ) calls the non-blocking pop on queue id,
\* then on ( id + 1 ) mod N, ..., ( id + N - 1 ) mod N in that order, returns
\* the task of the first pop that gives one, and reads queue id alone, in its
\* last loop, only after all N pops have failed
C33_ScanOrder ==
  /\ \A k \in 1 .. Len(scan.tried) :
       /\ k <= ScanThreads => scan.tried[k] = (scan.id + k - 1) % ScanThreads
       /\ k > ScanThreads => k = ScanThreads + 1 /\ scan.tried[k] = scan.id
  /\ scan.at = "returned" =>
       scan.got = scan.tried[Len(scan.tried)]
  /\ scan.at = "spin" => Len(scan.tried) = ScanThreads /\ scan_queue = scan.id
  /\ scan.at \in {"own", "steal"} =>
       Len(scan.tried) < ScanThreads
         /\ scan_queue = (scan.id + Len(scan.tried)) % ScanThreads
  /\ scan.spins > 0 => Len(scan.tried) >= ScanThreads

\* the call of worker 1 has returned the task of queue 0, the last queue of
\* its scan, after the pops on queues 1 and 2 failed
C33_Witness ==
  /\ scan.at = "returned" /\ scan.id = 1
  /\ scan.tried = << 1, 2, 0 >> /\ scan.got = 0

\* C34: a worker takes a task from another worker's queue only when its own
\* queue is empty
C34_StealOnlyWhenOwnEmpty ==
  [][\A t \in Workers :
       (/\ pc[t] \in {"own", "steal", "spin"}
        /\ pc'[t] \in {"run", "call"}
        /\ ScanQueue(t) # own_queue(t))
         => empty(m_tasks[own_queue(t)])]_vars

\* worker 1, in the drain loop of a wrapper made for queue 0, holds a task
\* while its own queue holds one
C34_Witness ==
  /\ stack[1] # << >> /\ Head(stack[1]) = 0
  /\ pc[1] \in {"run", "call"}
  /\ ~empty(m_tasks[1])

\* C35 as stated: the wrapper's loop, after the callable, takes tasks from
\* its own target queue only, and takes none once the running flag is false
C35_DrainsTargetQueueOnly ==
  [][\A t \in Workers :
       (/\ stack[t] # << >>
        /\ pc[t] \in {"own", "steal"}
        /\ pc'[t] \in {"run", "call"})
         => ScanQueue(t) = Head(stack[t]) /\ m_continue]_vars

\* C35: the wrapper's loop, after the callable, calls run_next_task( id )
\* only after it has read the running flag as true; a call reads the target
\* queue first and the other queues in turn when that pop fails; the loop
\* ends when the flag is read as false or when a whole scan gave no task
C35_DrainsWhileRunning ==
  [][\A t \in Workers :
       /\ (pc[t] = "drain" /\ pc'[t] = "own") =>
            m_continue /\ stack'[t] = stack[t] /\ ScanQueue(t)' = Head(stack[t])
       /\ (stack[t] # << >> /\ pc[t] = "own" /\ pc'[t] = "steal") =>
            m'[t] = (Head(stack[t]) + 1) % NumThreads
       /\ (stack[t] # << >> /\ stack'[t] = Tail(stack[t])) =>
            \/ pc[t] = "drain" /\ ~m_continue
            \/ /\ pc[t] \in {"own", "steal"}
               /\ (ScanQueue(t) + 1) % NumThreads = Head(stack[t])
       /\ (stack[t] # << >> /\ Len(stack'[t]) >= Len(stack[t])
             /\ pc[t] \in {"own", "steal"} /\ pc'[t] \in {"run", "call"}) =>
            ~empty(m_tasks[ScanQueue(t)])]_vars

\* worker 0, in the drain loop of a wrapper made for queue 0, is about to take
\* a task from queue 1 after its pop on queue 0 failed, the flag being false
C35_Witness ==
  /\ stack[0] # << >> /\ Head(stack[0]) = 0
  /\ pc[0] = "steal" /\ m[0] = 1
  /\ ~empty(m_tasks[1])
  /\ ~m_continue

\* C36: a helper tests in every turn of its loop whether the scheduler still
\* exists and still runs, and leaves without taking another task when the
\* scheduler is gone or its running flag is false
C36_HelperLeavesWhenStopped ==
  [][(helper.at = "cond" /\ (~helper.self \/ ~m_continue)) =>
       helper'.at # "take"]_vars

\* the helper has taken a task in a turn that began with the flag false
C36_Witness ==
  /\ ~m_continue
  /\ helper.at = "take"
  /\ helper.self
  /\ helper.taken >= 1

\* C37: the entry of a helper in m_other_threads is not erased by the
\* helper's exit before the thread that created it has stored the thread in
\* the entry and detached it, and the list holds entries of helpers that have
\* not exited only
C37_EntryOutlivesAssignment ==
  \A h \in Helpers :
    /\ (temp[h].owner # -1 /\ pc[temp[h].owner] = "scope_assign") =>
         m_other_threads[h] = "nullopt"
    /\ m_other_threads[h] # "none" => pc[h] # "done"

\* the helper has exited and erased its entry while the thread that created
\* it is still before *it = create_thread( ... )
C37_Witness ==
  \E h \in Helpers :
    /\ temp[h].owner # -1 /\ pc[temp[h].owner] = "scope_assign"
    /\ pc[h] = "done" /\ m_other_threads[h] = "none"
    /\ ~m_continue

\* C38: am_i_in_pool( ) called from a task on a pool worker always returns,
\* also while another thread is inside stop( true ): no worker that stop( )
\* still has to join waits for the mutex of m_threads while stop( ) holds it.
C38_NoDeadlockOnThreadList ==
  ~ \E k \in 1 .. Len(m_threads) :
      /\ life.at = "stop_join" /\ life.block
      /\ k >= life.n
      /\ m_threads[k] # 0
      /\ thread[m_threads[k]].at = "am_i_in_pool"

\* am_i_in_pool holds the mutex on a worker while a blocking stop( ) waits
\* for it
C38_Witness ==
  /\ life.at = "stop_lock" /\ life.block
  /\ \E k \in 1 .. Len(m_threads) : thread[m_threads[k]].at = "scan"

C40_NestingBelowTaskCount == \A t \in Workers : Len(stack[t]) < MaxGroup

\* every callable of a group of MaxGroup has run, one inside the drain loop
\* of the other on the same thread, and the thread has left both loops
C40_Witness ==
  /\ grp_size = MaxGroup
  /\ \A i \in 1 .. MaxGroup : executed[i] = 1
  /\ \E t \in Workers : pc[t] \in {"own", "steal", "spin", "loop"} /\ stack[t] = << >>

====
